---------------------------- MODULE Spec2Model ----------------------------
(***************************************************************************)
(* Model of the daily / weekly report aggregators                          *)
(*   scripts/generate_daily_summary.py, scripts/generate_weekly_summary.py *)
(*   generate_daily_final_report.py                                        *)
(*                                                                         *)
(* Text is modelled as a sequence of characters, one string per character. *)
(* The lexer accepts ASCII only, so a CJK character is written by its      *)
(* pinyin: "zeng" is U+589E, "jian" is U+51CF, "pei" is U+914D, "chi" is   *)
(* U+6301, "wei" is U+7EF4, "bu" is U+4E0D, "bian" is U+53D8, "bao" is     *)
(* U+4FDD, "zan" is U+6682, "ting" is U+505C, "zhi" is U+6B62.  The two    *)
(* fullwidth parentheses U+FF08 / U+FF09 are "FLP" / "FRP", the em dash    *)
(* U+2014 is "EMDASH", the en dash U+2013 is "ENDASH".  A number with two  *)
(* decimals is an integer count of hundredths (28.00 is 2800).             *)
(***************************************************************************)
EXTENDS Integers, Sequences, FiniteSets, TLC

VARIABLES
    candidates,   \* summarize_consensus: the list handed to it (cands_for_row)
    cons,         \* summarize_consensus: the agreement label it returned
    summ,         \* summarize_consensus: the summary it returned
    prev_cons,    \* the label returned before the last vote was added
    cpc,          \* position of the consensus run: "collect" | "done"
    cands,        \* select_best_candidate: the list handed to it
    best,         \* what scripts/generate_daily_summary.py returned for it
    best_final,   \* what generate_daily_final_report.py returned for it
    spc,          \* position of the selection run: "input" | "done"
    name,         \* the raw name handed to the normalizers
    topic_norm,   \* normalize_topic_name(name), daily
    topic_norm_w, \* normalize_topic_name(name), weekly
    name_norm,    \* normalize_item_name(name)
    npc,          \* position of the normalizer run: "input" | "done"
    cell_pct,     \* the magnitude of a cell of the daily output (hundredths)
    cell_phrase,  \* the phrase of that cell, as the source wrote it
    cell,         \* the cell's text in the daily output
    w_pct,        \* weekly parse_cell(cell): the magnitude
    w_inner,      \* weekly parse_cell(cell): the phrase
    w_disp,       \* weekly parse_cell(cell): the display string
    kpc,          \* position of the cell run: "input" | "written" | "done"
    dir_exists,   \* main: the input directory of the date exists
    docs,         \* main: the source documents in the input directory
    source_names, \* main: the fund names of the authoritative item list
    flags,        \* main: force, validate_only, publish, publish_dry_run
    files,        \* main: the documents in the order the listing gave them
    issues,       \* main: what validate_report_items_against_strategy found
    parsed_models, \* main: one ModelParsed per file
    tables,       \* main: model_cols and the rows of the tables
    output,       \* the text written to the output file, None before
    git_log,      \* the git commands publish_to_github has run
    exit_code,    \* what main returned, None while it runs
    rpc,          \* position of main
    sg_cat,       \* weekly signals: the entity is a category (else an item)
    sg_days,      \* weekly signals: the votes of the entity's row, day after day
    sg_out,       \* weekly signals: what compute_weekly derives for the row, None before
    gpc,          \* position of the signal run: "read" | "done"
    fc_cats,      \* compute_weekly: the categories of the week, each with its daily rows
    fc_items,     \* compute_weekly: the items of the week, each with its daily rows
    fc_out,       \* compute_weekly: focus_strong and focus_change
    fpc,          \* position of the focus run
    gr_kind,      \* which grouping runs: of daily items, daily themes, weekly themes
    gr_entries,   \* the entries handed to the loop so far
    gr_groups,    \* item_groups, groups, theme_groups: the groups in the order of creation
    gr_index,     \* for each group, the positions in gr_entries of its members
    gr_rows,      \* theme_rows of the daily themes
    qpc,          \* position of the grouping run
    in_prog,      \* which program runs on the directory: the final report or the weekly summary
    in_dir,       \* the input directory: None when it is missing, else the files it holds
    in_args,      \* the day or the window asked for
    in_inputs,    \* the documents the program took as its input
    in_written,   \* whether the output file was written
    in_exit,      \* the exit status of the process
    ipc,          \* position of that run
    sec_lines,    \* the text of one source document, line by line
    sec_out,      \* what parse_categories, parse_items and parse_themes returned for it
    xpc,          \* position of the parsing run
    tr_cat,       \* whether the row is one of the category table
    tr_early,     \* the score of the early half of a row
    tr_late,      \* the score of the late half
    tr_out,       \* the trend and its ranking magnitude
    tpc,          \* position of the trend computation
    dr_cat,       \* whether the phrase is one of the category table
    dr_phrase,    \* the direction phrase of a cell, word by word
    dr_stat,      \* its direction class, by each of the three implementations
    dpc,          \* position of the classification
    tg_day,       \* the day of the window whose daily report is looked for next
    tg_inputs,    \* input_dates: the days of the window that have a daily report, ascending
    tg_appear,    \* the days on which a cell of the theme group was read, ascending
    tg_tags,      \* the tags of the group
    upc           \* position of the tagging

consVars == <<candidates, cons, summ, prev_cons, cpc>>
selVars == <<cands, best, best_final, spc>>
normVars == <<name, topic_norm, topic_norm_w, name_norm, npc>>
cellVars == <<cell_pct, cell_phrase, cell, w_pct, w_inner, w_disp, kpc>>

runVars == <<dir_exists, docs, source_names, flags, files, issues, parsed_models,
             tables, output, git_log, exit_code, rpc>>

sigVars == <<sg_cat, sg_days, sg_out, gpc>>

focusVars == <<fc_cats, fc_items, fc_out, fpc>>

grpVars == <<gr_kind, gr_entries, gr_groups, gr_index, gr_rows, qpc>>

inVars == <<in_prog, in_dir, in_args, in_inputs, in_written, in_exit, ipc>>

secVars == <<sec_lines, sec_out, xpc>>

trVars == <<tr_cat, tr_early, tr_late, tr_out, tpc>>

dirVars == <<dr_cat, dr_phrase, dr_stat, dpc>>

tagVars == <<tg_day, tg_inputs, tg_appear, tg_tags, upc>>

vars == <<consVars, selVars, normVars, cellVars, runVars, sigVars, focusVars, grpVars,
          inVars, secVars, trVars, dirVars, tagVars>>

\* what the actions of one component leave alone
notCons == <<selVars, normVars, cellVars, runVars, sigVars, focusVars, grpVars, inVars,
             secVars, trVars, dirVars, tagVars>>
notSel == <<consVars, normVars, cellVars, runVars, sigVars, focusVars, grpVars, inVars,
            secVars, trVars, dirVars, tagVars>>
notNorm == <<consVars, selVars, cellVars, runVars, sigVars, focusVars, grpVars, inVars,
             secVars, trVars, dirVars, tagVars>>
notCell == <<consVars, selVars, normVars, runVars, sigVars, focusVars, grpVars, inVars,
             secVars, trVars, dirVars, tagVars>>
notRun == <<consVars, selVars, normVars, cellVars, sigVars, focusVars, grpVars, inVars,
            secVars, trVars, dirVars, tagVars>>
notSig == <<consVars, selVars, normVars, cellVars, runVars, focusVars, grpVars, inVars,
            secVars, trVars, dirVars, tagVars>>
notFocus == <<consVars, selVars, normVars, cellVars, runVars, sigVars, grpVars, inVars,
              secVars, trVars, dirVars, tagVars>>
notGrp == <<consVars, selVars, normVars, cellVars, runVars, sigVars, focusVars, inVars,
            secVars, trVars, dirVars, tagVars>>
notIn == <<consVars, selVars, normVars, cellVars, runVars, sigVars, focusVars, grpVars,
           secVars, trVars, dirVars, tagVars>>
notSec == <<consVars, selVars, normVars, cellVars, runVars, sigVars, focusVars,
            grpVars, inVars, trVars, dirVars, tagVars>>
notTr == <<consVars, selVars, normVars, cellVars, runVars, sigVars, focusVars, grpVars,
           inVars, secVars, dirVars, tagVars>>
notDir == <<consVars, selVars, normVars, cellVars, runVars, sigVars, focusVars,
            grpVars, inVars, secVars, trVars, tagVars>>
notTag == <<consVars, selVars, normVars, cellVars, runVars, sigVars, focusVars,
            grpVars, inVars, secVars, trVars, dirVars>>

\* Python's None where a text, a number or an object is expected; an optional
\* number x is <<x>>.  The empty text and None are the same value: the code
\* only ever tests them with `not`.
None == <<>>

Some(x) == <<x>>

\* None where a direction class (a string) is expected
NoStat == "none"

-----------------------------------------------------------------------------
(* The state of each component before it has run *)

ConsIdle ==
    /\ candidates = <<>>
    /\ cons = None
    /\ summ = None
    /\ prev_cons = None
    /\ cpc = "collect"

SelIdle ==
    /\ cands = <<>>
    /\ best = None
    /\ best_final = None
    /\ spc = "input"

NormIdle ==
    /\ name = <<>>
    /\ topic_norm = <<>>
    /\ topic_norm_w = <<>>
    /\ name_norm = <<>>
    /\ npc = "input"

CellIdle ==
    /\ cell_pct = 0
    /\ cell_phrase = <<>>
    /\ cell = <<>>
    /\ w_pct = None
    /\ w_inner = None
    /\ w_disp = <<>>
    /\ kpc = "input"

RunIdle ==
    /\ dir_exists = FALSE
    /\ docs = {}
    /\ source_names = <<>>
    /\ flags = [force |-> FALSE, validate_only |-> FALSE, publish |-> FALSE,
                publish_dry_run |-> FALSE]
    /\ files = <<>>
    /\ issues = <<>>
    /\ parsed_models = <<>>
    /\ tables = None
    /\ output = None
    /\ git_log = <<>>
    /\ exit_code = None
    /\ rpc = "start"

SigIdle ==
    /\ sg_cat = FALSE
    /\ sg_days = <<>>
    /\ sg_out = None
    /\ gpc = "read"

FocusIdle ==
    /\ fc_cats = <<>>
    /\ fc_items = <<>>
    /\ fc_out = None
    /\ fpc = "collect"

GrpIdle ==
    /\ gr_kind = "item"
    /\ gr_entries = <<>>
    /\ gr_groups = <<>>
    /\ gr_index = <<>>
    /\ gr_rows = None
    /\ qpc = "place"

InIdle ==
    /\ in_prog = "none"
    /\ in_dir = None
    /\ in_args = None
    /\ in_inputs = <<>>
    /\ in_written = FALSE
    /\ in_exit = None
    /\ ipc = "start"

SecIdle ==
    /\ sec_lines = <<>>
    /\ sec_out = None
    /\ xpc = "write"

TrIdle ==
    /\ tr_cat = FALSE
    /\ tr_early = None
    /\ tr_late = None
    /\ tr_out = None
    /\ tpc = "input"

DirIdle ==
    /\ dr_cat = FALSE
    /\ dr_phrase = <<>>
    /\ dr_stat = None
    /\ dpc = "input"

TagIdle ==
    /\ tg_day = 1
    /\ tg_inputs = <<>>
    /\ tg_appear = <<>>
    /\ tg_tags = <<>>
    /\ upc = "read"

OthersIdle(group) ==
    /\ group = "run" \/ RunIdle
    /\ group = "cons" \/ ConsIdle
    /\ group = "sel" \/ SelIdle
    /\ group = "norm" \/ NormIdle
    /\ group = "cell" \/ CellIdle
    /\ group = "sig" \/ SigIdle
    /\ group = "focus" \/ FocusIdle
    /\ group = "grp" \/ GrpIdle
    /\ group = "in" \/ InIdle
    /\ group = "sec" \/ SecIdle
    /\ group = "tr" \/ TrIdle
    /\ group = "dir" \/ DirIdle
    /\ group = "tag" \/ TagIdle

-----------------------------------------------------------------------------
(* Bounds *)

\* the most sources (columns) of one row
MaxSources == 4

\* the most candidates competing for one cell
MaxCands == 3

\* the longest raw name handed to the normalizers
MaxNameLen == 4

\* the longest phrase of a cell
MaxPhraseLen == 3

-----------------------------------------------------------------------------
(* Sequences as Python strings and lists *)

Range(s) == {s[i] : i \in 1..Len(s)}

\* Python `sub in s`
Contains(s, sub) ==
    \E i \in 0..(Len(s) - Len(sub)) : SubSeq(s, i + 1, i + Len(sub)) = sub

\* any(x in d for x in words)
ContainsAny(s, words) == \E w \in words : Contains(s, w)

Whitespace == {" "}

RECURSIVE LStrip(_)
LStrip(s) == IF s # <<>> /\ Head(s) \in Whitespace THEN LStrip(Tail(s)) ELSE s

RECURSIVE RStrip(_)
RStrip(s) ==
    IF s # <<>> /\ s[Len(s)] \in Whitespace
    THEN RStrip(SubSeq(s, 1, Len(s) - 1)) ELSE s

\* str.strip()
Strip(s) == RStrip(LStrip(s))

RECURSIVE DigitsOf(_)
DigitsOf(n) ==
    LET d == <<"0", "1", "2", "3", "4", "5", "6", "7", "8", "9">>[(n % 10) + 1]
    IN  IF n < 10 THEN <<d>> ELSE Append(DigitsOf(n \div 10), d)

Abs(x) == IF x < 0 THEN -x ELSE x

\* f'{x:.2f}%' of a number of hundredths
format_pct(x) ==
    LET a == Abs(x)
    IN  (IF x < 0 THEN <<"-">> ELSE <<>>)
        \o DigitsOf(a \div 100) \o <<".">>
        \o DigitsOf((a % 100) \div 10) \o DigitsOf(a % 10) \o <<"%">>

Digits == <<"0", "1", "2", "3", "4", "5", "6", "7", "8", "9">>
AsciiLower == <<"a", "b", "c", "d", "e", "f", "g", "h", "i", "j", "k", "l", "m",
                "n", "o", "p", "q", "r", "s", "t", "u", "v", "w", "x", "y", "z">>

IndexOf(seq, c) == CHOOSE i \in 1..Len(seq) : seq[i] = c

\* code points of the other characters compared by the model
OtherOrd ==
    [c \in {" ", "%", "(", ")", "-", "."} |->
        CASE c = " " -> 32 [] c = "%" -> 37 [] c = "(" -> 40
          [] c = ")" -> 41 [] c = "-" -> 45 [] c = "." -> 46]

\* code points of the CJK characters of the names main sorts: "hua" U+534E,
\* "an" U+5B89, "huang" U+9EC4, "jin" U+91D1, "chuang" U+521B, "xin" U+65B0,
\* "yao" U+836F, "ye" U+4E1A, "bai" U+767D, "jiu" U+9152, "zhai" U+503A,
\* "quan4" U+5238, "gu" U+80A1, "piao" U+7968, "ji1" U+673A, "qi4" U+5668,
\* "ren" U+4EBA, "zhong" U+4E2D, "qi1" U+671F, "huo" U+8D27, "mei" U+7F8E,
\* "lian" U+8054, "jie" U+63A5
CjkOrd ==
    [c \in {"hua", "an", "huang", "jin", "chuang", "xin", "yao", "ye", "bai", "jiu",
            "zhai", "quan4", "gu", "piao", "ji1", "qi4", "ren", "zhong", "qi1",
            "huo", "mei", "lian", "jie"} |->
        CASE c = "hua" -> 21326 [] c = "an" -> 23433 [] c = "huang" -> 40644
          [] c = "jin" -> 37329 [] c = "chuang" -> 21019 [] c = "xin" -> 26032
          [] c = "yao" -> 33647 [] c = "ye" -> 19994 [] c = "bai" -> 30333
          [] c = "jiu" -> 37202 [] c = "zhai" -> 20538 [] c = "quan4" -> 21048
          [] c = "gu" -> 32929 [] c = "piao" -> 31080 [] c = "ji1" -> 26426
          [] c = "qi4" -> 22120 [] c = "ren" -> 20154 [] c = "zhong" -> 20013
          [] c = "qi1" -> 26399 [] c = "huo" -> 36135 [] c = "mei" -> 32654
          [] c = "lian" -> 32852 [] c = "jie" -> 25509]

\* ord(c)
Ord(c) ==
    IF c \in Range(Digits) THEN 47 + IndexOf(Digits, c)
    ELSE IF c \in Range(AsciiLower) THEN 96 + IndexOf(AsciiLower, c)
    ELSE IF c \in DOMAIN CjkOrd THEN CjkOrd[c]
    ELSE OtherOrd[c]

\* Python a < b on str: by code point, a proper prefix first
StrLess(a, b) ==
    \/ Len(a) < Len(b) /\ SubSeq(b, 1, Len(a)) = a
    \/ \E i \in 1..Len(a) :
          /\ i <= Len(b)
          /\ SubSeq(a, 1, i - 1) = SubSeq(b, 1, i - 1)
          /\ Ord(a[i]) < Ord(b[i])

SetMin(S) == CHOOSE x \in S : \A y \in S : x <= y
SetMax(S) == CHOOSE x \in S : \A y \in S : x >= y

\* a local variable of the code: the value x under the name F gives it
With(x, F(_)) == F(x)

\* sorted(xs, key=...): Python's sort is stable, each element goes behind the
\* earlier elements whose key is not greater than its own
StableSort(xs, KeyLess(_, _)) ==
    LET insert(x, s) ==
            With(Cardinality({k \in 1..Len(s) : ~KeyLess(x, s[k])}), LAMBDA p :
                 SubSeq(s, 1, p) \o <<x>> \o SubSeq(s, p + 1, Len(s)))
        RECURSIVE sort(_)
        sort(n) == IF n = 0 THEN <<>> ELSE insert(xs[n], sort(n - 1))
    IN  sort(Len(xs))

\* the key (len(x), x) of sorted(..., key=lambda x: (len(x), x))
LenStrLess(a, b) == Len(a) < Len(b) \/ (Len(a) = Len(b) /\ StrLess(a, b))

\* sorted(set(names), key=lambda x: (len(x), x))[0]
ShortestFirst(names) == CHOOSE x \in names : \A y \in names \ {x} : LenStrLess(x, y)

\* the elements of a list without repetition, in the order of first occurrence
RECURSIVE Distinct(_)
Distinct(xs) ==
    IF xs = <<>> THEN <<>>
    ELSE LET init == Distinct(SubSeq(xs, 1, Len(xs) - 1))
         IN  IF xs[Len(xs)] \in Range(init) THEN init ELSE Append(init, xs[Len(xs)])

-----------------------------------------------------------------------------
(* direction_to_stat *)

direction_to_stat_nokeep(direction, is_category) ==
    IF direction = None THEN NoStat
    ELSE LET d == Strip(direction) IN
         IF is_category /\ Contains(d, <<"xiao", "fu", "zeng", "pei">>) THEN "zeng"
         ELSE IF is_category /\ Contains(d, <<"xiao", "fu", "jian", "pei">>) THEN "jian"
         ELSE IF is_category /\ Contains(d, <<"zeng", "pei">>) THEN "zeng"
         ELSE IF is_category /\ Contains(d, <<"jian", "pei">>) THEN "jian"
         ELSE IF ~is_category /\ Contains(d, <<"zeng", "chi">>) THEN "zeng"
         ELSE IF ~is_category /\ Contains(d, <<"jian", "chi">>) THEN "jian"
         ELSE IF Contains(d, <<"zeng">>) THEN "zeng"
         ELSE IF Contains(d, <<"jian">>) \/ Contains(d, <<"zan", "ting">>)
                 \/ Contains(d, <<"ting", "zhi">>) THEN "jian"
         ELSE "bubian"

\* the order of the tests if increase were tested before decrease throughout
direction_to_stat_increase_first(direction, is_category) ==
    IF direction = None THEN NoStat
    ELSE LET d == Strip(direction) IN
         IF ContainsAny(d, {<<"wei", "chi">>, <<"bu", "bian">>, <<"bao", "chi">>})
         THEN "bubian"
         ELSE IF is_category /\ Contains(d, <<"zeng", "pei">>) THEN "zeng"
         ELSE IF is_category /\ Contains(d, <<"jian", "pei">>) THEN "jian"
         ELSE IF ~is_category /\ Contains(d, <<"zeng", "chi">>) THEN "zeng"
         ELSE IF ~is_category /\ Contains(d, <<"jian", "chi">>) THEN "jian"
         ELSE IF Contains(d, <<"zeng">>) THEN "zeng"
         ELSE IF Contains(d, <<"jian">>) \/ Contains(d, <<"zan", "ting">>)
                 \/ Contains(d, <<"ting", "zhi">>) THEN "jian"
         ELSE "bubian"

\* returns NoStat | "zeng" | "jian" | "bubian"
direction_to_stat(direction, is_category) ==
    IF direction = None THEN NoStat
    ELSE LET d == Strip(direction) IN
         IF ContainsAny(d, {<<"wei", "chi">>, <<"bu", "bian">>, <<"bao", "chi">>})
         THEN "bubian"
         ELSE direction_to_stat_nokeep(direction, is_category)

-----------------------------------------------------------------------------
(* CellCandidate, as parse_categories builds it from one table row *)

cell_display(pct, direction) ==
    LET dir_disp == IF direction = None THEN <<"EMDASH">> ELSE direction
    IN  IF pct = None /\ direction = None THEN <<"EMDASH">>
        ELSE IF pct # None THEN format_pct(pct[1]) \o <<"FLP">> \o dir_disp \o <<"FRP">>
        ELSE <<"EMDASH", "FLP">> \o dir_disp \o <<"FRP">>

CellCandidate(pct, direction, raw_model) ==
    [display        |-> cell_display(pct, direction),
     pct            |-> pct,
     direction_raw  |-> direction,
     direction_stat |-> direction_to_stat(direction, TRUE),
     raw_model      |-> raw_model]

-----------------------------------------------------------------------------
(* Entity normalizer: normalize_topic_name, normalize_item_name             *)
(* More characters: "zhi3" U+6307, "shu" U+6570, "ji" U+57FA, "jin" U+91D1, *)
(* "ding" U+5B9A, "tou" U+6295, "zhu" U+4E3B, "ti" U+9898, "fang" U+65B9,   *)
(* "xiang4" U+5411, "ban" U+677F, "kuai" U+5757, "sai" U+8D5B, "dao"        *)
(* U+9053, "xiang1" U+76F8, "guan" U+5173, "gai" U+6982, "nian" U+5FF5,     *)
(* "zhong" U+4E2D, "zheng" U+8BC1, "shen" U+7533, "wan" U+4E07, "quan"      *)
(* U+5168, "ren" U+4EBA, "min" U+6C11, "bi" U+5E01, "fa" U+53D1, "qi"       *)
(* U+8D77, "shi" U+5F0F, "chuang" U+521B, "xin" U+65B0, "yao" U+836F,       *)
(* "chan" U+4EA7, "ye" U+4E1A, "hua" U+534E, "an" U+5B89, "huang" U+9EC4,   *)
(* "yi" U+6613, "lian" U+8054, "jie" U+63A5; "LBOOK" / "RBOOK" U+300A /     *)
(* U+300B, "LDQ" / "RDQ" U+201C / U+201D, "FCOMMA" U+FF0C, "FA" U+FF21.     *)

\* unicodedata.normalize('NFKC', c) of one character: the fullwidth forms
\* become their ASCII counterparts, every other character of the model is
\* its own normal form
NFKCChar(c) ==
    CASE c = "FLP" -> "("
      [] c = "FRP" -> ")"
      [] c = "FCOMMA" -> ","
      [] c = "FA" -> "A"
      [] OTHER -> c

NFKC(s) == [i \in 1..Len(s) |-> NFKCChar(s[i])]

AsciiUpper == <<"A", "B", "C", "D", "E", "F", "G", "H", "I", "J", "K", "L", "M",
                "N", "O", "P", "Q", "R", "S", "T", "U", "V", "W", "X", "Y", "Z">>

LowerChar(c) ==
    IF c \in Range(AsciiUpper) THEN AsciiLower[IndexOf(AsciiUpper, c)] ELSE c

\* str.lower()
Lower(s) == [i \in 1..Len(s) |-> LowerChar(s[i])]

\* str.replace(w, r): the occurrences of w from left to right, not overlapping
RECURSIVE Replace(_, _, _)
Replace(s, w, r) ==
    IF Len(s) < Len(w) THEN s
    ELSE IF SubSeq(s, 1, Len(w)) = w
         THEN r \o Replace(SubSeq(s, Len(w) + 1, Len(s)), w, r)
         ELSE <<Head(s)>> \o Replace(Tail(s), w, r)

\* re.sub of a character class by ''
RemoveChars(s, class) == SelectSeq(s, LAMBDA c : c \notin class)

\* the words replaced by '' one after the other, in this order
RECURSIVE RemoveWords(_, _)
RemoveWords(s, words) ==
    IF words = <<>> THEN s
    ELSE RemoveWords(Replace(s, Head(words), <<>>), Tail(words))

TopicWords ==
    << <<"e", "t", "f">>, <<"zhi3", "shu">>, <<"ji", "jin">>, <<"ding", "tou">>,
       <<"zhu", "ti">>, <<"fang", "xiang4">>, <<"ban", "kuai">>, <<"sai", "dao">>,
       <<"xiang1", "guan">>, <<"gai", "nian">> >>

BracketChars ==
    {"[", "]", "{", "}", "<", ">", "LBOOK", "RBOOK", "LDQ", "RDQ", "DQUOTE", "SQUOTE",
     "BACKTICK"}

\* scripts/generate_daily_summary.py and generate_daily_final_report.py
normalize_topic_name(s) ==
    IF s = <<>> THEN <<>>
    ELSE LET t1 == Lower(Strip(NFKC(s)))
             t2 == Replace(Replace(t1, <<"FLP">>, <<"(">>), <<"FRP">>, <<")">>)
             t3 == RemoveChars(t2, Whitespace)
             t4 == RemoveWords(t3, TopicWords)
             t5 == RemoveChars(t4, BracketChars)
         IN  RemoveChars(t5, {"(", ")"})

WeeklyPunctuation == {"MIDDOT", "BULLET", "DUNHAO", "FCOMMA", "FSTOP", ",", ";",
                      "FSEMI", "/", "BACKSLASH", "|"}

\* scripts/generate_weekly_summary.py
normalize_topic_name_weekly(s) ==
    LET t1 == Lower(Strip(NFKC(s)))
        t2 == Replace(Replace(t1, <<"FLP">>, <<"(">>), <<"FRP">>, <<")">>)
        t3 == RemoveWords(t2, TopicWords)
        t4 == RemoveChars(t3, Whitespace)
    IN  RemoveChars(t4, WeeklyPunctuation)

DashChars == {"-", "EMDASH", "ENDASH"}

\* re.fullmatch of a run of hyphens, em dashes and en dashes
OnlyDashes(t) == t # <<>> /\ \A i \in 1..Len(t) : t[i] \in DashChars

IsDigit(c) == c \in Range(Digits)

\* the length of the run of digits that starts s
RECURSIVE DigitRun(_)
DigitRun(s) == IF s # <<>> /\ IsDigit(Head(s)) THEN 1 + DigitRun(Tail(s)) ELSE 0

\* re.sub(r'(?<!\d)\d{6}(?!\d)', '', t): the maximal runs of exactly 6 digits
RECURSIVE RemoveCodes(_)
RemoveCodes(s) ==
    IF s = <<>> THEN s
    ELSE LET k == DigitRun(s) IN
         IF k = 0 THEN <<Head(s)>> \o RemoveCodes(Tail(s))
         ELSE (IF k = 6 THEN <<>> ELSE SubSeq(s, 1, k))
              \o RemoveCodes(SubSeq(s, k + 1, Len(s)))

ItemWords ==
    << <<"ren", "min", "bi">>, <<"zhong", "zheng", "shen", "wan">>,
       <<"zhong", "zheng", "quan", "zhi3">>, <<"zhong", "zheng">>,
       <<"shen", "wan">>, <<"quan", "zhi3">>, <<"fa", "qi", "shi">>, <<"fa", "qi">> >>

HuaAnHuangJin == <<"hua", "an", "huang", "jin">>

\* ^hua an huang jin (yi)? etf (lian jie [abc]?)?$ of lines 751-752
IsHuaAnGoldEtf(t) ==
    \E y \in {<<>>, <<"yi">>} :
       \E tail \in {<<>>, <<"lian", "jie">>, <<"lian", "jie", "a">>,
                    <<"lian", "jie", "b">>, <<"lian", "jie", "c">>} :
          t = HuaAnHuangJin \o y \o <<"e", "t", "f">> \o tail

normalize_item_name(s) ==
    IF s = <<>> THEN <<>>
    ELSE LET t1 == Lower(Strip(NFKC(s))) IN
         IF OnlyDashes(t1) THEN <<>>
         ELSE LET t2 == Replace(Replace(t1, <<"FLP">>, <<"(">>), <<"FRP">>, <<")">>)
                  t3 == RemoveChars(t2, Whitespace)
              IN  IF OnlyDashes(t3) THEN <<>>
                  ELSE LET t4 == RemoveCodes(t3)
                           t5 == Replace(t4, <<"chuang", "xin", "yao", "chan", "ye">>,
                                             <<"chuang", "xin", "yao">>)
                           t6 == RemoveWords(t5, ItemWords)
                           t7 == RemoveChars(t6, BracketChars)
                           t8 == RemoveChars(t7, {"(", ")"})
                       IN  IF IsHuaAnGoldEtf(t8) THEN HuaAnHuangJin ELSE t8

-----------------------------------------------------------------------------
(* Weekly cell parser: parse_float_from_text, parse_cell                    *)

\* the value, in hundredths, of a run of digits read as an integer
RECURSIVE DigitsValue(_)
DigitsValue(ds) ==
    IF ds = <<>> THEN 0
    ELSE 10 * DigitsValue(SubSeq(ds, 1, Len(ds) - 1)) + (Ord(ds[Len(ds)]) - 48)

\* float(m.group(0)) in hundredths: the model's cells carry at most two
\* decimals, a third decimal onwards is not read
NumberValue(neg, int_digits, frac_digits) ==
    LET f1 == IF Len(frac_digits) >= 1 THEN Ord(frac_digits[1]) - 48 ELSE 0
        f2 == IF Len(frac_digits) >= 2 THEN Ord(frac_digits[2]) - 48 ELSE 0
        v  == 100 * DigitsValue(int_digits) + 10 * f1 + f2
    IN  IF neg THEN -v ELSE v

\* re.search(r'-?\d+(?:\.\d+)?', s.replace(',', '')): None, or <<value>>
parse_float_from_text(s) ==
    LET t == RemoveChars(s, {","})
        starts == {k \in 1..Len(t) :
                     \/ IsDigit(t[k])
                     \/ t[k] = "-" /\ k < Len(t) /\ IsDigit(t[k + 1])}
    IN  IF s = <<>> \/ starts = {} THEN None
        ELSE LET k    == SetMin(starts)
                 neg  == t[k] = "-"
                 i0   == IF neg THEN k + 1 ELSE k
                 n    == DigitRun(SubSeq(t, i0, Len(t)))
                 rest == SubSeq(t, i0 + n, Len(t))
                 m    == IF rest # <<>> /\ Head(rest) = "." THEN DigitRun(Tail(rest)) ELSE 0
             IN  Some(NumberValue(neg, SubSeq(t, i0, i0 + n - 1),
                                  SubSeq(rest, 2, m + 1)))

\* normalize_text: NFKC, then strip
normalize_text(s) == Strip(NFKC(s))

OpenParens == {"FLP", "("}
CloseParens == {"FRP", ")"}

\* re.search(r'[FLP(]\s*([^FRP)]+?)\s*[FRP)]', raw), then group(1).strip() or
\* None: the leftmost opening parenthesis whose next closing parenthesis is
\* at least two characters further
paren_inner(raw) ==
    LET closes(i) == {j \in (i + 1)..Len(raw) : raw[j] \in CloseParens}
        opens == {i \in 1..Len(raw) :
                    /\ raw[i] \in OpenParens
                    /\ closes(i) # {}
                    /\ SetMin(closes(i)) >= i + 2}
    IN  IF opens = {} THEN None
        ELSE LET i == SetMin(opens)
             IN  Strip(SubSeq(raw, i + 1, SetMin(closes(i)) - 1))

\* parse_cell: <<pct, inner, disp>>
parse_cell_of(raw) ==
    IF raw = <<>> \/ raw = <<"EMDASH">> THEN <<None, None, <<"EMDASH">> >>
    ELSE LET pct   == parse_float_from_text(raw)
             inner == paren_inner(raw)
             disp  == IF pct = None /\ inner = None THEN <<"EMDASH">>
                      ELSE IF pct = None
                           THEN <<"EMDASH", "FLP">> \o inner \o <<"FRP">>
                           ELSE format_pct(pct[1]) \o <<"FLP">>
                                \o (IF inner = None THEN <<"EMDASH">> ELSE inner)
                                \o <<"FRP">>
         IN  <<pct, inner, disp>>

parse_cell(c) == parse_cell_of(normalize_text(c))

-----------------------------------------------------------------------------
(* select_best_candidate *)

Missing(c) == Strip(c.display) = <<"EMDASH">>

\* sorted(xs, key=lambda c: c.raw_model, reverse=True)[0]: the sort is stable,
\* so among the candidates of the greatest raw_model the first of xs comes first
FirstOfGreatestModel(xs) ==
    LET top == {i \in 1..Len(xs) :
                  \A j \in 1..Len(xs) : ~StrLess(xs[i].raw_model, xs[j].raw_model)}
    IN  xs[SetMin(top)]

select_best_candidate_none_if_missing(cs) ==
    IF cs = <<>> THEN None
    ELSE LET non_missing == SelectSeq(cs, LAMBDA c : ~Missing(c)) IN
         IF non_missing = <<>> THEN None
         ELSE LET max_len == SetMax({Len(non_missing[i].display) : i \in 1..Len(non_missing)})
                  longest == SelectSeq(non_missing, LAMBDA c : Len(c.display) = max_len)
              IN  FirstOfGreatestModel(longest)

select_best_candidate_first_longest(cs) ==
    IF cs = <<>> THEN None
    ELSE LET non_missing == SelectSeq(cs, LAMBDA c : ~Missing(c)) IN
         IF non_missing = <<>> THEN FirstOfGreatestModel(cs)
         ELSE LET max_len == SetMax({Len(non_missing[i].display) : i \in 1..Len(non_missing)})
                  longest == SelectSeq(non_missing, LAMBDA c : Len(c.display) = max_len)
              IN  longest[1]

\* scripts/generate_daily_summary.py
select_best_candidate(cs) ==
    IF cs = <<>> THEN None
    ELSE LET non_missing == SelectSeq(cs, LAMBDA c : ~Missing(c)) IN
         IF non_missing = <<>> THEN FirstOfGreatestModel(cs)
         ELSE LET max_len == SetMax({Len(non_missing[i].display) : i \in 1..Len(non_missing)})
                  longest == SelectSeq(non_missing, LAMBDA c : Len(c.display) = max_len)
              IN  FirstOfGreatestModel(longest)

\* generate_daily_final_report.py
select_best_candidate_final(cs) ==
    IF cs = <<>> THEN None
    ELSE LET non_missing == SelectSeq(cs, LAMBDA c : ~Missing(c))
             pool    == IF non_missing # <<>> THEN non_missing ELSE cs
             max_len == SetMax({Len(pool[i].display) : i \in 1..Len(pool)})
             longest == SelectSeq(pool, LAMBDA c : Len(c.display) = max_len)
         IN  FirstOfGreatestModel(longest)

-----------------------------------------------------------------------------
(* summarize_consensus *)

Usable(cs) == SelectSeq(cs, LAMBDA c : c # None /\ c.direction_stat # NoStat)

CountDir_skip_last(usable, d) ==
    Cardinality({i \in 1..(Len(usable) - 1) : usable[i].direction_stat = d})

\* counts[c.direction_stat] += 1 over the usable candidates
CountDir(usable, d) ==
    Cardinality({i \in 1..Len(usable) : usable[i].direction_stat = d})

Dirs == {"zeng", "jian", "bubian"}

\* the text 'no clear bias' between the label's parentheses
NoBias == <<"wumingxianpianxiang">>

\* the range of no magnitude: EMDASH ENDASH EMDASH
NoRange == <<"EMDASH", "ENDASH", "EMDASH">>

range_str(usable) ==
    LET pcts == {usable[i].pct[1] : i \in {j \in 1..Len(usable) : usable[j].pct # None}}
    IN  IF pcts = {} THEN NoRange
        ELSE format_pct(SetMin(pcts)) \o <<"ENDASH">> \o format_pct(SetMax(pcts))

\* the float test max_vote / n >= 0.75; exact on small integers: 0.75 is a
\* binary fraction and the quotient is correctly rounded
RatioAtLeastThreshold(max_vote, n) == 4 * max_vote >= 3 * n

consensus_label_half(n, max_vote, bias_dir, bias_str) ==
    IF n = 1 THEN [level |-> "fenqi", bias |-> bias_str]
    ELSE IF max_vote = n THEN [level |-> "yizhi", bias |-> bias_dir]
    ELSE IF 2 * max_vote >= n THEN [level |-> "jibenyizhi", bias |-> bias_str]
    ELSE [level |-> "fenqi", bias |-> bias_str]

\* the label: level "yizhi" (unanimous) | "jibenyizhi" (mostly unanimous) |
\* "fenqi" (disagreement), and the text between the parentheses; the
\* n = 1 override of line 1325 is applied last in the code, first here
consensus_label(n, max_vote, bias_dir, bias_str) ==
    IF n = 1 THEN [level |-> "fenqi", bias |-> bias_str]
    ELSE IF max_vote = n THEN [level |-> "yizhi", bias |-> bias_dir]
    ELSE IF RatioAtLeastThreshold(max_vote, n) THEN [level |-> "jibenyizhi", bias |-> bias_str]
    ELSE [level |-> "fenqi", bias |-> bias_str]

consensus_summary_prefix_two(n, counts, rng) ==
    IF n <= 2 THEN [insufficient |-> TRUE, counts |-> None, range |-> rng]
    ELSE [insufficient |-> FALSE, counts |-> counts, range |-> rng]

\* the summary: 'insufficient data; range R' (no counts), or
\* 'a zeng/b jian/c bubian; range R'
consensus_summary(n, counts, rng) ==
    IF n = 1 THEN [insufficient |-> TRUE, counts |-> None, range |-> rng]
    ELSE [insufficient |-> FALSE, counts |-> counts, range |-> rng]

summarize_consensus(cs) ==
    LET usable == Usable(cs) IN
    IF usable = <<>>
    THEN [cons |-> [level |-> "fenqi", bias |-> NoBias],
          summ |-> [insufficient |-> TRUE, counts |-> None, range |-> NoRange]]
    ELSE LET counts   == [d \in Dirs |-> CountDir(usable, d)]
             n        == Len(usable)
             max_vote == SetMax({counts[d] : d \in Dirs})
             top_dirs == {d \in Dirs : counts[d] = max_vote}
             bias_dir == IF Cardinality(top_dirs) = 1
                         THEN CHOOSE d \in top_dirs : TRUE ELSE NoStat
             bias_str == IF bias_dir # NoStat
                         THEN <<"pian", bias_dir>> ELSE NoBias
         IN  [cons |-> consensus_label(n, max_vote,
                          IF bias_dir # NoStat THEN <<bias_dir>> ELSE NoBias,
                          bias_str),
              summ |-> consensus_summary(n, counts, range_str(usable))]

-----------------------------------------------------------------------------
(* The consensus run: main collects one selected candidate per source     *)
(* column into cands_for_row and hands the list to summarize_consensus     *)

ZengPei == <<"zeng", "pei">>
JianPei == <<"jian", "pei">>

\* what one source column can contribute to a row
CandPool ==
    { CellCandidate(Some(2800), ZengPei, <<"g", "p", "t">>),
      CellCandidate(Some(3000), <<"xiao", "fu">> \o ZengPei, <<"g", "e", "m", "i", "n", "i">>),
      CellCandidate(Some(3100), <<"zeng">>, <<"k", "i", "m", "i">>),
      CellCandidate(Some(2800), JianPei, <<"g", "r", "o", "k">>),
      CellCandidate(Some(3000), <<"wei", "chi">>, <<"g", "l", "m">>),
      CellCandidate(Some(3000), None, <<"q", "w", "e", "n">>),
      CellCandidate(None, ZengPei, <<"d", "e", "e", "p", "s", "e", "e", "k">>),
      None }

\* main, lines 1620-1629: cands_for_row.append(best)
Collect(c) ==
    /\ cpc = "collect"
    /\ Len(candidates) < MaxSources
    /\ candidates' = Append(candidates, c)
    /\ UNCHANGED <<cons, summ, prev_cons, cpc>>
    /\ UNCHANGED notCons

\* main, line 1631: cons, summ = summarize_consensus(cands_for_row)
Summarize ==
    /\ cpc = "collect"
    /\ LET r == summarize_consensus(candidates)
       IN  cons' = r.cons /\ summ' = r.summ
    /\ cpc' = "done"
    /\ UNCHANGED <<candidates, prev_cons>>
    /\ UNCHANGED notCons

\* the row summarized again with one more source column
AddVote(c) ==
    /\ cpc = "done"
    /\ prev_cons = None
    /\ candidates' = Append(candidates, c)
    /\ prev_cons' = cons
    /\ LET r == summarize_consensus(candidates')
       IN  cons' = r.cons /\ summ' = r.summ
    /\ UNCHANGED cpc
    /\ UNCHANGED notCons

ConsInit == ConsIdle /\ OthersIdle("cons")

ConsNext ==
    \/ \E c \in CandPool : Collect(c)
    \/ Summarize
    \/ \E c \in CandPool : AddVote(c)

SpecConsensus == ConsInit /\ [][ConsNext]_vars

-----------------------------------------------------------------------------
(* The selection run: main gathers the candidates competing for one cell   *)
(* (lines 1519, 1622-1627, 1650-1651) and selects one                      *)

Gpt == <<"g", "p", "t">>
Kimi == <<"k", "i", "m", "i">>
Gemini == <<"g", "e", "m", "i", "n", "i">>

\* candidates that can compete for one cell; two of them come from the same
\* source and have displays of equal length
SelPool ==
    { CellCandidate(Some(2800), ZengPei, Gpt),
      CellCandidate(Some(3000), JianPei, Gpt),
      CellCandidate(None, None, Gpt),
      CellCandidate(None, None, Kimi),
      CellCandidate(None, ZengPei, Kimi),
      CellCandidate(Some(2900), JianPei, Kimi),
      CellCandidate(Some(3100), <<"xiao", "fu">> \o ZengPei, Gemini) }

\* cands.append(...)
Gather(c) ==
    /\ spc = "input"
    /\ Len(cands) < MaxCands
    /\ cands' = Append(cands, c)
    /\ UNCHANGED <<best, best_final, spc>>
    /\ UNCHANGED notSel

\* best = select_best_candidate(cands)
Select ==
    /\ spc = "input"
    /\ best' = select_best_candidate(cands)
    /\ best_final' = select_best_candidate_final(cands)
    /\ spc' = "done"
    /\ UNCHANGED cands
    /\ UNCHANGED notSel

SelInit == SelIdle /\ OthersIdle("sel")

SelNext ==
    \/ \E c \in SelPool : Gather(c)
    \/ Select

SpecSelect == SelInit /\ [][SelNext]_vars

\* the orders in which a list of n candidates can be handed over
Perms(n) == {p \in [1..n -> 1..n] : \A i, j \in 1..n : p[i] = p[j] => i = j}

Permuted(xs, p) == [i \in 1..Len(xs) |-> xs[p[i]]]

\* C7: the selected candidate is the same for every permutation of a
\* non-empty candidate list, also when candidates of the same source have
\* displays of equal length.
C7_SelectionIgnoresOrder ==
    (spc = "done" /\ cands # <<>>) =>
        \A p \in Perms(Len(cands)) :
            select_best_candidate(Permuted(cands, p)) = best

\* C8: no candidate is returned iff the list is empty; a candidate returned
\* is one of the list.  Both implementations.
C8_DefinedIffNonEmpty ==
    spc = "done" =>
        /\ best = None <=> cands = <<>>
        /\ best_final = None <=> cands = <<>>
        /\ cands # <<>> => best \in Range(cands) /\ best_final \in Range(cands)

C8_Witness ==
    /\ spc = "done"
    /\ Len(cands) = MaxCands
    /\ \A i \in 1..Len(cands) : Missing(cands[i])
    /\ best \in Range(cands)

\* the positions of the candidates with a display other than the dash
NonMissing == {i \in 1..Len(cands) : ~Missing(cands[i])}

\* b has a display when a candidate has one, the longest display among the
\* candidates that have one, and the greatest source among the longest
PreferredOf(b) ==
    NonMissing # {} =>
        /\ ~Missing(b)
        /\ \A i \in NonMissing : Len(cands[i].display) <= Len(b.display)
        /\ \A i \in NonMissing :
              Len(cands[i].display) = Len(b.display)
                  => ~StrLess(b.raw_model, cands[i].raw_model)

\* C23: for every non-empty candidate list the selected candidate has a
\* display other than the dash whenever a candidate has one; among these it
\* has the maximum display length; among those of maximum length it has the
\* greatest source identifier.  Both implementations.
C23_BestIsLongestOfGreatestSource ==
    (spc = "done" /\ cands # <<>>) => PreferredOf(best) /\ PreferredOf(best_final)

\* a candidate without display and two of different sources with displays
\* of the same, greatest length, the one of the lesser source handed over
\* first: the one of the greater source is selected
C23_Witness ==
    /\ spc = "done"
    /\ Len(cands) = 3
    /\ \E i \in 1..3 : Missing(cands[i])
    /\ \E i, j \in NonMissing :
          /\ i < j
          /\ Len(cands[i].display) = Len(cands[j].display)
          /\ StrLess(cands[i].raw_model, cands[j].raw_model)
          /\ best = cands[j]
          /\ best_final = cands[j]

-----------------------------------------------------------------------------
(* The normalizer run: a raw name of a table cell is normalized             *)

\* characters of raw names: two boilerplate words of topic names, two
\* removable words of item names, a digit and a parenthesis
NameAlphabet == {"zhi3", "shu", "ji", "jin", "zhong", "zheng", "shen", "wan", "(", "1"}

\* one more character of the cell's text
TypeChar(c) ==
    /\ npc = "input"
    /\ Len(name) < MaxNameLen
    /\ name' = Append(name, c)
    /\ UNCHANGED <<topic_norm, topic_norm_w, name_norm, npc>>
    /\ UNCHANGED notNorm

\* topic_norm=normalize_topic_name(topic) (parse_themes),
\* name_norm=normalize_item_name(name) (main, line 1578)
Normalize ==
    /\ npc = "input"
    /\ topic_norm' = normalize_topic_name(name)
    /\ topic_norm_w' = normalize_topic_name_weekly(name)
    /\ name_norm' = normalize_item_name(name)
    /\ npc' = "done"
    /\ UNCHANGED name
    /\ UNCHANGED notNorm

NormInit == NormIdle /\ OthersIdle("norm")

NormNext ==
    \/ \E c \in NameAlphabet : TypeChar(c)
    \/ Normalize

SpecNormalize == NormInit /\ [][NormNext]_vars

\* C9: normalization is idempotent, also for names where removing one word
\* or code brings together the characters of another removable word.
C9_NormalizeIdempotent ==
    npc = "done" =>
        /\ normalize_topic_name(topic_norm) = topic_norm
        /\ normalize_item_name(name_norm) = name_norm

\* the two halves of C9, each refuted on its own
C9_TopicIdempotent ==
    npc = "done" => normalize_topic_name(topic_norm) = topic_norm

C9_ItemIdempotent ==
    npc = "done" => normalize_item_name(name_norm) = name_norm

C9_WeeklyTopicIdempotent ==
    npc = "done" => normalize_topic_name_weekly(topic_norm_w) = topic_norm_w

-----------------------------------------------------------------------------
(* The cell run: the daily aggregator writes a cell '<num>%(<phrase>)' with *)
(* fullwidth parentheses, the weekly aggregator parses it                  *)

\* magnitudes of a cell, in hundredths
Magnitudes == {-550, 5, 2800, 123456}

\* characters of a phrase (none of them a parenthesis)
PhraseAlphabet == {"zeng", "chi", "FCOMMA", " ", "5", "."}

\* the source's table row gives the magnitude
ReadMagnitude(m) ==
    /\ kpc = "input"
    /\ cell_phrase = <<>>
    /\ cell_pct' = m
    /\ UNCHANGED <<cell_phrase, cell, w_pct, w_inner, w_disp, kpc>>
    /\ UNCHANGED notCell

\* and the phrase
ReadPhraseChar(c) ==
    /\ kpc = "input"
    /\ Len(cell_phrase) < MaxPhraseLen
    /\ cell_phrase' = Append(cell_phrase, c)
    /\ UNCHANGED <<cell_pct, cell, w_pct, w_inner, w_disp, kpc>>
    /\ UNCHANGED notCell

\* parse_categories, lines 357-368: direction = row[dir_col].strip() or None,
\* display = f'{pct_disp}(dir_disp)'
WriteCell ==
    /\ kpc = "input"
    /\ LET direction == Strip(cell_phrase)
       IN  cell' = cell_display(Some(cell_pct), direction)
    /\ kpc' = "written"
    /\ UNCHANGED <<cell_pct, cell_phrase, w_pct, w_inner, w_disp>>
    /\ UNCHANGED notCell

\* compute_weekly: pct, inner, disp = parse_cell(cell)
ParseCell ==
    /\ kpc = "written"
    /\ LET r == parse_cell(cell)
       IN  w_pct' = r[1] /\ w_inner' = r[2] /\ w_disp' = r[3]
    /\ kpc' = "done"
    /\ UNCHANGED <<cell_pct, cell_phrase, cell>>
    /\ UNCHANGED notCell

CellInit == CellIdle /\ OthersIdle("cell")

CellNext ==
    \/ \E m \in Magnitudes : ReadMagnitude(m)
    \/ \E c \in PhraseAlphabet : ReadPhraseChar(c)
    \/ WriteCell
    \/ ParseCell

SpecCell == CellInit /\ [][CellNext]_vars

\* C10: for a well-formed cell '<num>%(<phrase>)' written by the daily
\* aggregator (two decimals, non-empty phrase without parentheses) the weekly
\* parse_cell returns that magnitude, that phrase and a display equal to the
\* cell.
C10_CellRoundTrip ==
    (kpc = "done" /\ Strip(cell_phrase) # <<>>) =>
        /\ w_pct = Some(cell_pct)
        /\ w_inner = Strip(cell_phrase)
        /\ w_disp = cell

\* the round trip for the phrases NFKC leaves alone
C10_StablePhraseRoundTrip ==
    (kpc = "done" /\ Strip(cell_phrase) # <<>> /\ NFKC(cell_phrase) = cell_phrase) =>
        /\ w_pct = Some(cell_pct)
        /\ w_inner = Strip(cell_phrase)
        /\ w_disp = cell

-----------------------------------------------------------------------------
(* Properties of summarize_consensus *)

\* votes of direction d among the candidates of the row
VotesFor(d) ==
    Cardinality({i \in 1..Len(candidates) :
                    candidates[i] # None /\ candidates[i].direction_stat = d})

\* n: the usable candidates; m: the largest per-direction vote count
NUsable == VotesFor("zeng") + VotesFor("jian") + VotesFor("bubian")
MVotes == SetMax({VotesFor(d) : d \in Dirs})
TopDirs == {d \in Dirs : VotesFor(d) = MVotes}

\* the direction a label names, NoStat for 'no clear bias'
NamedDir(label) ==
    IF label.bias = NoBias THEN NoStat ELSE label.bias[Len(label.bias)]

Agreeing == {"yizhi", "jibenyizhi"}

\* C3: the label is 'unanimous' iff n > 1 and m = n, 'mostly unanimous' iff
\* n > 1, m < n and m/n >= 0.75, 'disagreement' otherwise (always when n = 1);
\* the bias named is the unique direction with m votes, 'no clear bias' on a
\* tie; 2 increase + 1 decrease is 'disagreement (biased toward increase)'.
C3_LabelRule ==
    cpc = "done" =>
        /\ cons.level = "yizhi" <=> (NUsable > 1 /\ MVotes = NUsable)
        /\ cons.level = "jibenyizhi" <=>
               (NUsable > 1 /\ MVotes < NUsable /\ 4 * MVotes >= 3 * NUsable)
        /\ cons.level = "fenqi" <=>
               (NUsable <= 1 \/ 4 * MVotes < 3 * NUsable)
        /\ cons.level \in {"yizhi", "jibenyizhi", "fenqi"}
        /\ Cardinality(TopDirs) = 1 => NamedDir(cons) \in TopDirs
        /\ Cardinality(TopDirs) > 1 => cons.bias = NoBias
        /\ (VotesFor("zeng") = 2 /\ VotesFor("jian") = 1 /\ VotesFor("bubian") = 0)
               => cons = [level |-> "fenqi", bias |-> <<"pian", "zeng">>]

C3_Witness ==
    /\ cpc = "done"
    /\ VotesFor("zeng") = 2 /\ VotesFor("jian") = 1 /\ VotesFor("bubian") = 0
    /\ cons = [level |-> "fenqi", bias |-> <<"pian", "zeng">>]

\* the magnitudes of the usable candidates
UsableMagnitudes ==
    {candidates[i].pct[1] :
        i \in {j \in 1..Len(candidates) :
                  /\ candidates[j] # None
                  /\ candidates[j].direction_stat # NoStat
                  /\ candidates[j].pct # None}}

ExpectedRange ==
    IF UsableMagnitudes = {} THEN NoRange
    ELSE format_pct(SetMin(UsableMagnitudes)) \o <<"ENDASH">>
         \o format_pct(SetMax(UsableMagnitudes))

ExpectedCounts == [d \in Dirs |-> VotesFor(d)]

\* the three sources of the 'Bonds' scenario: increase at 28, 30 and 31
BondsScenario ==
    /\ Len(candidates) = 3
    /\ \A i \in 1..3 : candidates[i] # None /\ candidates[i].direction_stat = "zeng"
    /\ UsableMagnitudes = {2800, 3000, 3100}

\* C5 as claimed: with at least one usable candidate the summary states the
\* three vote counts and the magnitude range, and is prefixed 'insufficient
\* data;' exactly when there is one usable source.
C5_CountsAlwaysStated ==
    (cpc = "done" /\ NUsable >= 1) =>
        /\ summ.counts = ExpectedCounts
        /\ summ.range = ExpectedRange
        /\ summ.insufficient <=> (NUsable = 1)

\* C5 amended: with two or more usable candidates the summary states the three
\* vote counts and the range min-max and has no prefix; with exactly one it is
\* 'insufficient data; range min-max' and states no vote counts; the Bonds
\* scenario gives 3/0/0, range 28.00%-31.00%, label unanimous (increase).
C5_SummaryRule ==
    cpc = "done" =>
        /\ NUsable >= 2 =>
              /\ summ.counts = ExpectedCounts
              /\ summ.range = ExpectedRange
              /\ ~summ.insufficient
        /\ NUsable = 1 =>
              /\ summ.counts = None
              /\ summ.range = ExpectedRange
              /\ summ.insufficient
        /\ BondsScenario =>
              /\ summ.counts = [d \in Dirs |-> IF d = "zeng" THEN 3 ELSE 0]
              /\ summ.range = <<"2", "8", ".", "0", "0", "%", "ENDASH",
                                "3", "1", ".", "0", "0", "%">>
              /\ cons = [level |-> "yizhi", bias |-> <<"zeng">>]

C5_Witness ==
    /\ cpc = "done"
    /\ BondsScenario
    /\ summ.counts = [d \in Dirs |-> IF d = "zeng" THEN 3 ELSE 0]
    /\ ~summ.insufficient

\* the candidate of the vote added last
LastVote == candidates[Len(candidates)]

VoteAddedForMajority ==
    /\ prev_cons # None
    /\ prev_cons.level \in Agreeing
    /\ LastVote # None
    /\ LastVote.direction_stat = NamedDir(prev_cons)

\* C6: one more usable vote for the majority direction X of a row labelled
\* unanimous or mostly unanimous gives a label that is again unanimous or
\* mostly unanimous, biased toward X.
C6_MajorityVoteKeepsAgreement ==
    VoteAddedForMajority =>
        /\ cons.level \in Agreeing
        /\ NamedDir(cons) = NamedDir(prev_cons)

C6_Witness ==
    /\ VoteAddedForMajority
    /\ prev_cons.level = "jibenyizhi"
    /\ cons.level = "jibenyizhi"
    /\ NUsable = 5

-----------------------------------------------------------------------------
(* Matching the items of a report against the authoritative item list       *)

\* set(item_tokens(norm)): the bigrams of a normalized name
item_tokens(norm) ==
    IF norm = <<>> THEN {}
    ELSE IF Len(norm) >= 2 THEN {SubSeq(norm, i, i + 1) : i \in 1..(Len(norm) - 1)}
    ELSE {norm}

IsCjk(c) == c \in DOMAIN CjkOrd

\* re.match of two to four characters of U+4E00..U+9FFF at the start of a: the leading CJK characters, at most
\* four, None when there are fewer than two
cjk_prefix(a) ==
    LET run == {k \in 0..4 : k <= Len(a) /\ \A i \in 1..k : IsCjk(a[i])}
        k   == SetMax(run)
    IN  IF k >= 2 THEN SubSeq(a, 1, k) ELSE None

item_norm_similar(a, b) ==
    IF a = <<>> \/ b = <<>> THEN FALSE
    ELSE LET ma == cjk_prefix(a)
             mb == cjk_prefix(b)
             ta == item_tokens(a)
             tb == item_tokens(b)
             inter == Cardinality(ta \cap tb)
             union == Cardinality(ta \cup tb)
         IN  IF ma # None /\ mb # None /\ ma # mb THEN FALSE
             ELSE IF a = b THEN TRUE
             ELSE IF (Contains(b, a) \/ Contains(a, b)) /\ Len(a) >= 6 /\ Len(b) >= 6
                  THEN TRUE
             ELSE IF inter < 10 THEN FALSE
             ELSE IF union = 0 THEN FALSE
             ELSE 100 * inter >= 60 * union

\* re.sub(r'[abc]$', '', norm)
strip_share_class(norm) ==
    IF norm # <<>> /\ norm[Len(norm)] \in {"a", "b", "c"}
    THEN SubSeq(norm, 1, Len(norm) - 1) ELSE norm

\* re.sub(r'(?:lian jie)?[abc]$', '', norm)
strip_feeder_share_class(norm) ==
    LET t == strip_share_class(norm)
    IN  IF t # norm /\ Len(t) >= 2 /\ SubSeq(t, Len(t) - 1, Len(t)) = <<"lian", "jie">>
        THEN SubSeq(t, 1, Len(t) - 2) ELSE t

item_norm_variants(norm) ==
    IF norm = <<>> THEN {}
    ELSE {norm, strip_share_class(norm), strip_feeder_share_class(norm)} \ {<<>>}

\* jaccard_bigrams(a, b) as the fraction <<inter, union>>; 0.0 is <<0, 1>>
jaccard_bigrams(a, b) ==
    LET ta == item_tokens(a)
        tb == item_tokens(b)
    IN  IF a = <<>> \/ b = <<>> THEN <<0, 1>>
        ELSE <<Cardinality(ta \cap tb), Cardinality(ta \cup tb)>>

ScoreGreater(p, q) == p[1] * q[2] > q[1] * p[2]

\* best_score >= 0.55; the quotient of two small integers is correctly
\* rounded, so the float test agrees with the test on the fraction
ScoreAtLeastThreshold(p) == 100 * p[1] >= 55 * p[2]

\* the names source_norm_to_names gives for the variants of norm
alias_candidates(norm, names) ==
    {nm \in Range(names) :
        item_norm_variants(normalize_item_name(nm)) \cap item_norm_variants(norm) # {}}

\* the loop over source_names that keeps the first name of the greatest
\* score; None when no score is positive
best_bigram_match(norm, names) ==
    With([i \in 1..Len(names) |-> jaccard_bigrams(norm, normalize_item_name(names[i]))],
         LAMBDA score :
         With({i \in 1..Len(names) :
                  /\ ScoreGreater(score[i], <<0, 1>>)
                  /\ \A j \in 1..Len(names) : ~ScoreGreater(score[j], score[i])},
              LAMBDA tops :
              IF tops = {} THEN None ELSE <<names[SetMin(tops)], score[SetMin(tops)]>>))

map_report_exact_only(item, names) ==
    IF item \in Range(names) THEN item ELSE None

\* the name of the authoritative list a report's item stands for, or None
map_report_item_to_source_name(item, names) ==
    IF item = <<>> THEN None
    ELSE IF item \in Range(names) THEN item
    ELSE With(normalize_item_name(item), LAMBDA norm :
         IF norm = <<>> THEN None
         ELSE With(alias_candidates(norm, names), LAMBDA aliases :
              IF aliases # {} THEN ShortestFirst(aliases)
              ELSE With(best_bigram_match(norm, names), LAMBDA m :
                   IF m # None /\ ScoreAtLeastThreshold(m[2]) THEN m[1] ELSE None)))

-----------------------------------------------------------------------------
(* What the parsers read of one source document.  A document of the model   *)
(* is the rows of its three tables: cats and items are rows <<key, value,   *)
(* direction>>, themes are rows <<topic, value, caliber>>; no_new says that *)
(* its text states that no new direction is proposed.  A dict is the list   *)
(* of its [k, v] pairs in insertion order.                                  *)

DictKeys(d) == [i \in 1..Len(d) |-> d[i].k]

DictHas(d, key) == \E i \in 1..Len(d) : d[i].k = key

DictGet(d, key) == d[CHOOSE i \in 1..Len(d) : d[i].k = key].v

\* d[key] = value: a new key goes last, an old key keeps its place
DictPut(d, key, value) ==
    IF DictHas(d, key)
    THEN [i \in 1..Len(d) |-> IF d[i].k = key THEN [k |-> key, v |-> value] ELSE d[i]]
    ELSE Append(d, [k |-> key, v |-> value])

\* the CellCandidate of a row of the item table (lines 667-692)
ItemCandidate(pct, direction, raw_model) ==
    [display        |-> cell_display(pct, direction),
     pct            |-> pct,
     direction_raw  |-> direction,
     direction_stat |-> direction_to_stat(direction, FALSE),
     raw_model      |-> raw_model]

\* parse_categories: the dict of the rows with a key
RECURSIVE parse_categories_rows(_, _)
parse_categories_rows(rows, raw_model) ==
    IF rows = <<>> THEN <<>>
    ELSE LET r    == rows[Len(rows)]
             init == parse_categories_rows(SubSeq(rows, 1, Len(rows) - 1), raw_model)
         IN  IF Strip(r[1]) = <<>> THEN init
             ELSE DictPut(init, Strip(r[1]), CellCandidate(r[2], r[3], raw_model))

parse_categories(doc) == parse_categories_rows(doc.cats, doc.raw_model)

\* parse_items: the dict of the rows whose key normalizes to a name
RECURSIVE parse_items_rows(_, _)
parse_items_rows(rows, raw_model) ==
    IF rows = <<>> THEN <<>>
    ELSE LET r    == rows[Len(rows)]
             init == parse_items_rows(SubSeq(rows, 1, Len(rows) - 1), raw_model)
         IN  IF normalize_item_name(Strip(r[1])) = <<>> THEN init
             ELSE DictPut(init, Strip(r[1]), ItemCandidate(r[2], r[3], raw_model))

parse_items(doc) == parse_items_rows(doc.items, doc.raw_model)

-----------------------------------------------------------------------------
(* validate_report_items_against_strategy *)

\* how the loop of lines 896-930 settles one item of a report
item_resolution(item, names) ==
    With(normalize_item_name(item), LAMBDA norm :
    IF norm = <<>> THEN [kind |-> "skip", to |-> None]
    ELSE IF item \in Range(names) THEN [kind |-> "exact", to |-> item]
    ELSE With(alias_candidates(norm, names), LAMBDA aliases :
         IF aliases # {} THEN [kind |-> "mapped", to |-> ShortestFirst(aliases)]
         ELSE With(best_bigram_match(norm, names), LAMBDA m :
              IF m # None /\ ScoreAtLeastThreshold(m[2])
              THEN [kind |-> "mapped", to |-> m[1]]
              ELSE [kind |-> "extra", to |-> None])))

\* line 932: the names no item of the report resolves to; res[i] is how
\* report_items[i] was settled
missing_items(report_items, res, names) ==
    LET matched_source ==
            {res[i].to : i \in {j \in 1..Len(res) : res[j].kind \in {"exact", "mapped"}}}
    IN  SelectSeq(names, LAMBDA nm : nm \notin matched_source
                                     /\ nm \notin Range(report_items))

MismatchLess(x, y) == StrLess(x[2], y[2]) \/ (x[2] = y[2] /\ StrLess(x[1], y[1]))

\* the items of a report that were settled as kind, with what they resolve to
settled_as(report_items, res, kind) ==
    LET idx == SelectSeq([i \in 1..Len(res) |-> i], LAMBDA i : res[i].kind = kind)
    IN  [n \in 1..Len(idx) |-> <<report_items[idx[n]], res[idx[n]].to>>]

\* the ItemValidationIssue of one file
item_validation_issue(doc, names) ==
    With(DictKeys(parse_items(doc)), LAMBDA report_items :
    With([i \in 1..Len(report_items) |-> item_resolution(report_items[i], names)],
         LAMBDA res :
         LET extra == settled_as(report_items, res, "extra")
         IN  [raw_model              |-> doc.raw_model,
              extra_items            |->
                  StableSort([n \in 1..Len(extra) |-> extra[n][1]], StrLess),
              missing_items          |-> missing_items(report_items, res, names),
              mapped_name_mismatches |->
                  StableSort(settled_as(report_items, res, "mapped"), MismatchLess)]))

\* the issues, one per file that has any; none when there is no list
validate_report_items_against_strategy(fs, names) ==
    IF names = <<>> THEN <<>>
    ELSE SelectSeq([i \in 1..Len(fs) |-> item_validation_issue(fs[i], names)],
                   LAMBDA it : it.extra_items # <<>> \/ it.missing_items # <<>>
                               \/ it.mapped_name_mismatches # <<>>)

-----------------------------------------------------------------------------
(* main: one ModelParsed per file (lines 1501-1537)                         *)

canonicalize_model(raw_model) == Strip(raw_model)

\* lines 1507-1523: the items kept under their authoritative names
RECURSIVE filter_items(_, _)
filter_items(items, names) ==
    IF items = <<>> THEN <<>>
    ELSE With(filter_items(SubSeq(items, 1, Len(items) - 1), names), LAMBDA init :
         With(map_report_item_to_source_name(items[Len(items)].k, names), LAMBDA mapped :
         With(items[Len(items)].v, LAMBDA cand :
              IF mapped = None THEN init
              ELSE IF DictHas(init, mapped)
                   THEN DictPut(init, mapped,
                                select_best_candidate(<<DictGet(init, mapped), cand>>))
                   ELSE DictPut(init, mapped, cand))))

\* "wu" is U+65E0: the topic of a row that proposes nothing
is_none_topic(topic) ==
    \/ topic \in {<<"wu">>, <<"EMDASH">>, <<"-">>}
    \/ normalize_topic_name(topic) \in {<<>>, <<"wu">>}
    \/ Len(topic) = 3 /\ topic[1] \in OpenParens /\ topic[2] = "wu"
          /\ topic[3] \in CloseParens

\* the ThemeEntry of a row <<topic, value, caliber>> (lines 990-1013)
ThemeEntry(row, raw_model) ==
    LET topic   == Strip(row[1])
        caliber == IF Strip(row[3]) = <<>> THEN <<"EMDASH">> ELSE Strip(row[3])
    IN  [topic      |-> topic,
         topic_norm |-> normalize_topic_name(topic),
         pct        |-> row[2],
         caliber    |-> caliber,
         display    |-> IF row[2] = None THEN <<"EMDASH">>
                        ELSE format_pct(row[2][1]) \o <<"FLP">> \o caliber \o <<"FRP">>,
         raw_model  |-> raw_model]

\* parse_themes: <<entries, explicitly_no_new>>
parse_themes(doc) ==
    LET rows    == SelectSeq(doc.themes, LAMBDA r : Strip(r[1]) # <<>>)
        kept    == SelectSeq(rows, LAMBDA r : ~is_none_topic(Strip(r[1])))
    IN  << [i \in 1..Len(kept) |-> ThemeEntry(kept[i], doc.raw_model)],
           doc.no_new \/ Len(kept) < Len(rows) >>

ModelParsed(doc, names) ==
    With(parse_items(doc), LAMBDA all_items :
    With(IF names # <<>> THEN filter_items(all_items, names) ELSE all_items, LAMBDA items :
    With(parse_themes(doc), LAMBDA themes_and_flag :
         [raw_model         |-> doc.raw_model,
          canonical_model   |-> canonicalize_model(doc.raw_model),
          categories        |-> parse_categories(doc),
          items             |-> items,
          themes            |-> themes_and_flag[1],
          explicitly_no_new |-> themes_and_flag[2],
          item_order        |-> IF names # <<>>
                                THEN SelectSeq(names, LAMBDA nm : DictHas(items, nm))
                                ELSE DictKeys(items)])))

-----------------------------------------------------------------------------
(* main: columns, category rows (lines 1539-1636)                           *)

MODEL_PREFIX_ORDER ==
    << <<"d", "e", "e", "p", "s", "e", "e", "k">>, <<"g", "e", "m", "i", "n", "i">>,
       <<"g", "p", "t">>, <<"g", "r", "o", "k">>, <<"g", "l", "m">>,
       <<"k", "i", "m", "i">>, <<"m", "i", "n", "i", "m", "a", "x">>,
       <<"t", "r", "a", "e", "a", "i">>, <<"q", "w", "e", "n">> >>

StartsWith(s, prefix) == Len(s) >= Len(prefix) /\ SubSeq(s, 1, Len(prefix)) = prefix

\* model_sort_key: <<0, i, s>> for the first prefix the name starts with
model_sort_key(model) ==
    LET s    == Strip(model)
        hits == {i \in 1..Len(MODEL_PREFIX_ORDER) :
                    StartsWith(Lower(s), MODEL_PREFIX_ORDER[i])}
    IN  IF hits # {} THEN <<0, SetMin(hits) - 1, s>>
        ELSE <<1, Len(MODEL_PREFIX_ORDER), s>>

ModelKeyLess(a, b) ==
    LET x == model_sort_key(a)
        y == model_sort_key(b)
    IN  \/ x[1] < y[1]
        \/ x[1] = y[1] /\ x[2] < y[2]
        \/ x[1] = y[1] /\ x[2] = y[2] /\ StrLess(x[3], y[3])

\* sorted(S, key=...) for a key that orders S totally
SortedSeqOf(S, KeyLess(_, _)) ==
    [r \in 1..Cardinality(S) |->
        CHOOSE x \in S : Cardinality({y \in S : KeyLess(y, x)}) = r - 1]

\* present_models, line 1540
model_cols_of(pms) ==
    SortedSeqOf({pms[i].canonical_model : i \in 1..Len(pms)}, ModelKeyLess)

\* the categories 'bonds', 'China stocks', 'futures', 'US stocks'
CATEGORY_ORDER_FIXED ==
    << <<"zhai", "quan4">>, <<"zhong", "gu">>, <<"qi1", "huo">>, <<"mei", "gu">> >>

\* cat_sort_key: (0, index) for a fixed category, (1, k) for another
CatKeyLess(a, b) ==
    LET fixed(k) == k \in Range(CATEGORY_ORDER_FIXED)
        idx(k)   == CHOOSE i \in 1..Len(CATEGORY_ORDER_FIXED) : CATEGORY_ORDER_FIXED[i] = k
    IN  \/ fixed(a) /\ ~fixed(b)
        \/ fixed(a) /\ fixed(b) /\ idx(a) < idx(b)
        \/ ~fixed(a) /\ ~fixed(b) /\ StrLess(a, b)

cat_list_of(pms) ==
    SortedSeqOf(UNION {Range(DictKeys(pms[i].categories)) : i \in 1..Len(pms)},
                CatKeyLess)

\* row.append(best.display if best else EMDASH)
cell_of(c) == IF c = None THEN <<"EMDASH">> ELSE c.display

\* a row of a full table: the entity, one cell per column, the consensus
table_row(entity, cands_for_row) ==
    LET r == summarize_consensus(cands_for_row)
    IN  [name  |-> entity,
         cells |-> [i \in 1..Len(cands_for_row) |-> cell_of(cands_for_row[i])],
         cons  |-> r.cons,
         summ  |-> r.summ]

\* lines 1618-1634: the row of one category
cat_row(cat, cols, pms) ==
    LET with(col) == SelectSeq(pms, LAMBDA pm : pm.canonical_model = col
                                                /\ DictHas(pm.categories, cat))
        cs(col)   == [i \in 1..Len(with(col)) |-> DictGet(with(col)[i].categories, cat)]
    IN  table_row(cat, [j \in 1..Len(cols) |-> select_best_candidate(cs(cols[j]))])

\* cons.startswith('yizhi') or cons.startswith('jibenyizhi')
cons_rows(rows) == SelectSeq(rows, LAMBDA r : r.cons.level \in {"yizhi", "jibenyizhi"})

-----------------------------------------------------------------------------
(* main: item groups and item rows (lines 1545-1660)                        *)

\* item_seen_order: the names in the order of their indices
RECURSIVE item_seen_order(_, _)
item_seen_order(pms, names) ==
    IF pms = <<>> THEN Distinct(names)
    ELSE Distinct(item_seen_order(SubSeq(pms, 1, Len(pms) - 1), names)
                  \o pms[Len(pms)].item_order)

NotSeen == 999999

\* item_seen_order.get(name, 999999)
seen_index(seen, nm) ==
    IF nm \in Range(seen) THEN (CHOOSE i \in 1..Len(seen) : seen[i] = nm) - 1
    ELSE NotSeen

ItemEntry(nm, cand, canonical_model) ==
    [name |-> nm, name_norm |-> normalize_item_name(nm), candidate |-> cand,
     canonical_model |-> canonical_model]

\* all_item_entries: the items of every parsed model, file after file
RECURSIVE all_item_entries(_)
all_item_entries(pms) ==
    IF pms = <<>> THEN <<>>
    ELSE LET pm == pms[Len(pms)]
         IN  all_item_entries(SubSeq(pms, 1, Len(pms) - 1))
             \o [i \in 1..Len(pm.items) |->
                    ItemEntry(pm.items[i].k, pm.items[i].v, pm.canonical_model)]

Min(a, b) == IF a <= b THEN a ELSE b

\* lines 1584-1606, one turn of the loop: an entry joins the first group one
\* of whose norms is similar to its own, else it opens a group;
\* entries_by_col[col] is the entries of the group whose canonical_model is
\* col, in this order
place_item(gs, ie, seen) ==
    LET hits == {i \in 1..Len(gs) :
                    \E j \in 1..Len(gs[i].norms) :
                       item_norm_similar(ie.name_norm, gs[i].norms[j])}
    IN  IF hits # {}
        THEN [gs EXCEPT ![SetMin(hits)] =
                [names     |-> Append(@.names, ie.name),
                 norms     |-> Append(@.norms, ie.name_norm),
                 entries   |-> Append(@.entries, ie),
                 order_key |-> Min(@.order_key, seen_index(seen, ie.name))]]
        ELSE Append(gs, [names     |-> <<ie.name>>,
                         norms     |-> <<ie.name_norm>>,
                         entries   |-> <<ie>>,
                         order_key |-> seen_index(seen, ie.name)])

\* lines 1583-1606
RECURSIVE group_items(_, _)
group_items(entries, seen) ==
    IF entries = <<>> THEN <<>>
    ELSE place_item(group_items(SubSeq(entries, 1, Len(entries) - 1), seen),
                    entries[Len(entries)], seen)

\* item_group_sort_key: (order_key, the shortest and then least name)
ItemGroupLess(g, h) ==
    \/ g.order_key < h.order_key
    \/ g.order_key = h.order_key
          /\ StrLess(ShortestFirst(Range(g.names)), ShortestFirst(Range(h.names)))

item_groups_of(pms, names) ==
    StableSort(group_items(all_item_entries(pms), item_seen_order(pms, names)),
               ItemGroupLess)

\* sorted(freq.items(), key=lambda x: (-x[1], len(x[0]), x[0]))[0][0]
main_name_of(grp_names) ==
    LET freq(n) == Cardinality({i \in 1..Len(grp_names) : grp_names[i] = n})
        less(a, b) == freq(a) > freq(b) \/ (freq(a) = freq(b) /\ LenStrLess(a, b))
    IN  CHOOSE x \in Range(grp_names) : \A y \in Range(grp_names) \ {x} : less(x, y)

\* lines 1641-1658: the row of one item group
item_row(g, cols) ==
    LET of_col(col) == SelectSeq(g.entries, LAMBDA ie : ie.canonical_model = col)
        cs(col)     == [i \in 1..Len(of_col(col)) |-> of_col(col)[i].candidate]
    IN  table_row(main_name_of(g.names),
                  [j \in 1..Len(cols) |->
                      IF cs(cols[j]) # <<>> THEN select_best_candidate(cs(cols[j]))
                      ELSE None])

-----------------------------------------------------------------------------
(* main: theme groups and theme rows (lines 1662-1775)                      *)

CharClass(c) ==
    IF IsCjk(c) THEN "cjk"
    ELSE IF c \in Range(AsciiLower) \cup Range(Digits) THEN "alnum"
    ELSE "other"

\* the maximal runs of characters of one class
RECURSIVE class_runs(_)
class_runs(s) ==
    IF s = <<>> THEN <<>>
    ELSE LET c    == s[Len(s)]
             init == class_runs(SubSeq(s, 1, Len(s) - 1))
         IN  IF init # <<>> /\ CharClass(init[Len(init)][1]) = CharClass(c)
             THEN [init EXCEPT ![Len(init)] = Append(@, c)]
             ELSE Append(init, <<c>>)

\* set(topic_tokens(norm)): the runs of two or more CJK characters or of two
\* or more of [a-z0-9] when there are two such runs, else the bigrams
topic_tokens(norm) ==
    LET tokens == SelectSeq(class_runs(norm),
                            LAMBDA r : CharClass(r[1]) # "other" /\ Len(r) >= 2)
    IN  IF norm = <<>> THEN {}
        ELSE IF Len(tokens) >= 2 THEN Range(tokens)
        ELSE IF Len(norm) >= 2 THEN {SubSeq(norm, i, i + 1) : i \in 1..(Len(norm) - 1)}
        ELSE {norm}

\* all_entries: the themes of every parsed model, file after file
RECURSIVE all_theme_entries(_)
all_theme_entries(pms) ==
    IF pms = <<>> THEN <<>>
    ELSE LET pm == pms[Len(pms)]
         IN  all_theme_entries(SubSeq(pms, 1, Len(pms) - 1))
             \o [i \in 1..Len(pm.themes) |->
                    [col |-> pm.canonical_model, te |-> pm.themes[i]]]

\* the match by the norms alone
theme_match_norms_only(te, g) ==
    \/ te.topic_norm \in Range(g.norms)
    \/ \E i \in 1..Len(g.norms) :
          /\ g.norms[i] # <<>>
          /\ Contains(te.topic_norm, g.norms[i]) \/ Contains(g.norms[i], te.topic_norm)

\* lines 1683-1693: does the entry belong to the group
theme_match(te, g) ==
    \/ te.topic_norm \in Range(g.norms)
    \/ \E i \in 1..Len(g.norms) :
          /\ g.norms[i] # <<>>
          /\ Contains(te.topic_norm, g.norms[i]) \/ Contains(g.norms[i], te.topic_norm)
    \/ Cardinality(topic_tokens(te.topic_norm) \cap g.tokens) >= 2

\* lines 1680-1711, one turn of the loop: an entry joins the first group it
\* matches, else it opens a group
place_theme(gs, e) ==
    LET hits == {i \in 1..Len(gs) : theme_match(e.te, gs[i])}
    IN  IF hits # {}
        THEN [gs EXCEPT ![SetMin(hits)] =
                [names   |-> Append(@.names, e.te.topic),
                 norms   |-> Append(@.norms, e.te.topic_norm),
                 tokens  |-> @.tokens \cup topic_tokens(e.te.topic_norm),
                 entries |-> Append(@.entries, e)]]
        ELSE Append(gs, [names   |-> <<e.te.topic>>,
                         norms   |-> <<e.te.topic_norm>>,
                         tokens  |-> topic_tokens(e.te.topic_norm),
                         entries |-> <<e>>])

\* lines 1679-1711
RECURSIVE group_themes(_)
group_themes(entries) ==
    IF entries = <<>> THEN <<>>
    ELSE place_theme(group_themes(SubSeq(entries, 1, Len(entries) - 1)),
                     entries[Len(entries)])

\* list(g.entries_by_col.keys()): the columns in the order they came in
proposers_of(g) == Distinct([i \in 1..Len(g.entries) |-> g.entries[i].col])

\* group_sort_key: -len(g.entries_by_col)
ThemeGroupLess(g, h) == Len(proposers_of(g)) > Len(proposers_of(h))

theme_groups_of(pms) == StableSort(group_themes(all_theme_entries(pms)), ThemeGroupLess)

\* lines 1740-1746: 0 for the main name, 1 for a name within it or around it
theme_dist(e, main_norm) ==
    IF e.topic_norm = main_norm THEN 0
    ELSE IF Contains(e.topic_norm, main_norm) \/ Contains(main_norm, e.topic_norm) THEN 1
    ELSE 2

\* lines 1721-1775: the row of one theme group; a note is
\* [kind, col, names], kind "merge" | "other" | "only" | "nonew"
theme_row(g, cols, pms) ==
    LET main_name  == main_name_of(g.names)
        main_norm  == normalize_topic_name(main_name)
        distinct   == SortedSeqOf(Range(g.names), LenStrLess)
        proposers  == proposers_of(g)
        of_col(c)  == SelectSeq(g.entries, LAMBDA e : e.col = c)
        best_i(c)  == SetMin({i \in 1..Len(of_col(c)) :
                         \A j \in 1..Len(of_col(c)) :
                            theme_dist(of_col(c)[i].te, main_norm)
                               <= theme_dist(of_col(c)[j].te, main_norm)})
        others(c)  == {of_col(c)[i].te.topic :
                          i \in {j \in 1..Len(of_col(c)) : j # best_i(c)}}
        other_note(c) == [kind |-> "other", col |-> c,
                          names |-> IF of_col(c) = <<>> THEN <<>>
                                    ELSE SortedSeqOf(others(c), StrLess)]
        no_new_cols == {c \in Range(cols) :
                           /\ c \notin Range(proposers)
                           /\ \E i \in 1..Len(pms) :
                                 pms[i].canonical_model = c /\ pms[i].explicitly_no_new}
        diffs ==
            (IF Len(distinct) > 1
             THEN << [kind |-> "merge", col |-> <<>>, names |-> distinct] >> ELSE <<>>)
            \o SelectSeq([j \in 1..Len(cols) |-> other_note(cols[j])],
                         LAMBDA n : n.names # <<>>)
            \o (IF Len(proposers) = 1
                THEN << [kind |-> "only", col |-> proposers[1], names |-> <<>>] >>
                ELSE <<>>)
            \o (IF no_new_cols # {}
                THEN << [kind |-> "nonew", col |-> <<>>,
                         names |-> SortedSeqOf(no_new_cols, StrLess)] >>
                ELSE <<>>)
    IN  [name  |-> main_name,
         cells |-> [j \in 1..Len(cols) |->
                      IF of_col(cols[j]) # <<>>
                      THEN of_col(cols[j])[best_i(cols[j])].te.display
                      ELSE <<"EMDASH">>],
         notes |-> diffs]

-----------------------------------------------------------------------------
(* main: the tables and the document written (lines 1539-1799)              *)

build_tables_skip_unusable(pms, names) ==
    LET cols  == model_cols_of(pms)
        cats  == cat_list_of(pms)
        igs   == item_groups_of(pms, names)
        tgs   == theme_groups_of(pms)
        voted(r) == ~(r.summ.insufficient /\ r.cons.bias = NoBias)
    IN  [model_cols  |-> cols,
         item_groups |-> igs,
         cat_rows    |-> SelectSeq([i \in 1..Len(cats) |-> cat_row(cats[i], cols, pms)],
                                   voted),
         item_rows   |-> SelectSeq([i \in 1..Len(igs) |-> item_row(igs[i], cols)], voted),
         theme_rows  |-> [i \in 1..Len(tgs) |-> theme_row(tgs[i], cols, pms)]]

build_tables(pms, names) ==
    LET cols  == model_cols_of(pms)
        cats  == cat_list_of(pms)
        igs   == item_groups_of(pms, names)
        tgs   == theme_groups_of(pms)
    IN  [model_cols  |-> cols,
         item_groups |-> igs,
         cat_rows    |-> [i \in 1..Len(cats) |-> cat_row(cats[i], cols, pms)],
         item_rows   |-> [i \in 1..Len(igs) |-> item_row(igs[i], cols)],
         theme_rows  |-> [i \in 1..Len(tgs) |-> theme_row(tgs[i], cols, pms)]]

\* esc of render_table: (s or EMDASH).replace(newline, ' ').strip()
esc(text) == IF text = <<>> THEN <<"EMDASH">> ELSE Strip(text)

render_table(rows) ==
    [i \in 1..Len(rows) |->
        [rows[i] EXCEPT !.name = esc(@),
                        !.cells = [j \in 1..Len(@) |-> esc(@[j])]]]

\* summarize_top_changes_paragraph, line 1095: the documents of the model
\* carry no list of top changes, section 0 is the sentence that says so
NoTopChanges == "no parsable top changes"

\* md: the sections of the document in the order they are written
render_document(t) ==
    [section0      |-> NoTopChanges,
     model_cols    |-> t.model_cols,
     section1      |-> render_table(t.cat_rows),
     section1_cons |-> render_table(cons_rows(t.cat_rows)),
     section2      |-> render_table(t.item_rows),
     section2_cons |-> render_table(cons_rows(t.item_rows)),
     section3      |-> render_table(t.theme_rows)]

-----------------------------------------------------------------------------
(* publish_to_github: the git commands it runs in an environment env, and   *)
(* whether it reports success                                               *)

publish_to_github_commits_any(env, dry_run) ==
    IF ~env.in_repo THEN [ok |-> FALSE, log |-> <<"rev-parse">>]
    ELSE IF ~env.diff_ok \/ env.staged_before
         THEN [ok |-> FALSE, log |-> <<"rev-parse", "diff">>]
    ELSE IF dry_run THEN [ok |-> TRUE, log |-> <<"rev-parse", "diff">>]
    ELSE IF ~env.add_ok THEN [ok |-> FALSE, log |-> <<"rev-parse", "diff", "add">>]
    ELSE IF ~env.diff_after_ok
         THEN [ok |-> FALSE, log |-> <<"rev-parse", "diff", "add", "diff">>]
    ELSE IF env.staged_after = "none"
         THEN [ok |-> TRUE, log |-> <<"rev-parse", "diff", "add", "diff">>]
    ELSE IF ~env.commit_ok
         THEN [ok |-> FALSE, log |-> <<"rev-parse", "diff", "add", "diff", "commit">>]
    ELSE [ok |-> env.push_ok,
          log |-> <<"rev-parse", "diff", "add", "diff", "commit", "push">>]

\* lines 1355-1426
publish_to_github(env, dry_run) ==
    IF ~env.in_repo THEN [ok |-> FALSE, log |-> <<"rev-parse">>]
    ELSE IF ~env.diff_ok \/ env.staged_before
         THEN [ok |-> FALSE, log |-> <<"rev-parse", "diff">>]
    ELSE IF dry_run THEN [ok |-> TRUE, log |-> <<"rev-parse", "diff">>]
    ELSE IF ~env.add_ok THEN [ok |-> FALSE, log |-> <<"rev-parse", "diff", "add">>]
    ELSE IF ~env.diff_after_ok
         THEN [ok |-> FALSE, log |-> <<"rev-parse", "diff", "add", "diff">>]
    ELSE IF env.staged_after = "none"
         THEN [ok |-> TRUE, log |-> <<"rev-parse", "diff", "add", "diff">>]
    ELSE IF env.staged_after = "other"
         THEN [ok |-> FALSE, log |-> <<"rev-parse", "diff", "add", "diff">>]
    ELSE IF ~env.commit_ok
         THEN [ok |-> FALSE, log |-> <<"rev-parse", "diff", "add", "diff", "commit">>]
    ELSE [ok |-> env.push_ok,
          log |-> <<"rev-parse", "diff", "add", "diff", "commit", "push">>]

\* a working tree in which every git command succeeds: the answers of
\* rev-parse, of the two reads of the staging area (whether they succeed and
\* what is staged before and after the add), of add, of commit and of push
GitOk ==
    [in_repo |-> TRUE, diff_ok |-> TRUE, staged_before |-> FALSE, add_ok |-> TRUE,
     diff_after_ok |-> TRUE, staged_after |-> "target", commit_ok |-> TRUE,
     push_ok |-> TRUE]

\* the environments publish_to_github can meet
GitEnvs ==
    [in_repo : BOOLEAN, diff_ok : BOOLEAN, staged_before : BOOLEAN,
     add_ok : BOOLEAN, diff_after_ok : BOOLEAN,
     staged_after : {"none", "target", "other"}, commit_ok : BOOLEAN,
     push_ok : BOOLEAN]

-----------------------------------------------------------------------------
(* The daily run: main(date_str, force, validate_only, publish,             *)
(* publish_dry_run) over the documents of the input directory               *)

\* the most documents of one input directory
MaxDocs == 2

\* fund names of the authoritative list
GoldEtf == <<"hua", "an", "huang", "jin", "e", "t", "f">>
Pharma == <<"chuang", "xin", "yao">>

\* names a report gives to these funds, and a fund that is not on the list
GoldShort == <<"hua", "an", "huang", "jin">>
PharmaLong == <<"chuang", "xin", "yao", "ye">>
Liquor == <<"bai", "jiu">>

Bonds == <<"zhai", "quan4">>
ChinaStocks == <<"zhong", "gu">>
Gold == <<"huang", "jin">>
Robots == <<"ji1", "qi4", "ren">>

ZengChi == <<"zeng", "chi">>
JianChi == <<"jian", "chi">>
OfNew == <<"xin", "zeng">>

DocPool ==
    { [raw_model |-> Gpt,
       cats      |-> << <<Bonds, Some(2800), ZengPei>>, <<Gold, Some(500), None>> >>,
       items     |-> << <<GoldEtf, Some(1000), ZengChi>>, <<Pharma, Some(500), JianChi>> >>,
       themes    |-> << <<Robots, Some(500), OfNew>> >>,
       no_new    |-> FALSE],
      [raw_model |-> Kimi,
       cats      |-> << <<Bonds, Some(3000), ZengPei>>, <<ChinaStocks, Some(2000), None>> >>,
       items     |-> << <<GoldShort, Some(1200), ZengChi>>, <<PharmaLong, None, None>>,
                        <<Liquor, Some(300), ZengChi>> >>,
       themes    |-> << <<Gold, Some(300), OfNew>> >>,
       no_new    |-> FALSE],
      [raw_model |-> Gemini,
       cats      |-> << <<ChinaStocks, None, None>> >>,
       items     |-> << <<GoldEtf, Some(900), None>> >>,
       themes    |-> <<>>,
       no_new    |-> TRUE] }

\* the authoritative item lists: none, both funds, one fund
PlanPool == {<<>>, <<GoldEtf, Pharma>>, <<GoldEtf>>}

Flags == [force : BOOLEAN, validate_only : BOOLEAN, publish : BOOLEAN,
          publish_dry_run : BOOLEAN]

\* the orders in which iterdir() can list the documents
Listings(S) ==
    {fs \in [1..Cardinality(S) -> S] :
        \A i, j \in 1..Cardinality(S) : fs[i] = fs[j] => i = j}

validation_exit_never_stops(fatal, fl) == None

validation_exit_ignores_missing(fatal, fl) ==
    IF fl.validate_only THEN Some(IF fatal THEN 2 ELSE 0) ELSE None

validation_exit_force_first(fatal, fl) ==
    IF fatal
    THEN IF fl.force THEN None ELSE Some(2)
    ELSE IF fl.validate_only THEN Some(0) ELSE None

\* lines 1464-1499: what main returns after the validation, None to go on
validation_exit(fatal, fl) ==
    IF fatal
    THEN IF fl.validate_only THEN Some(2)
         ELSE IF ~fl.force THEN Some(2)
         ELSE None
    ELSE IF fl.validate_only THEN Some(0) ELSE None

\* lines 1435-1448: the directory is listed
ListFiles(fs) ==
    /\ rpc = "start"
    /\ IF ~dir_exists \/ fs = <<>>
       THEN /\ exit_code' = Some(1)
            /\ rpc' = "done"
            /\ files' = <<>>
       ELSE /\ files' = fs
            /\ rpc' = "listed"
            /\ UNCHANGED exit_code
    /\ UNCHANGED <<dir_exists, docs, source_names, flags, issues, parsed_models,
                   tables, output, git_log>>
    /\ UNCHANGED notRun

\* lines 1460-1499: the items of every file are checked against the list
Validate ==
    /\ rpc = "listed"
    /\ issues' = validate_report_items_against_strategy(files, source_names)
    /\ LET fatal == \E i \in 1..Len(issues') : issues'[i].missing_items # <<>>
           rc    == validation_exit(fatal, flags)
       IN  /\ exit_code' = rc
           /\ rpc' = IF rc = None THEN "validated" ELSE "done"
    /\ UNCHANGED <<dir_exists, docs, source_names, flags, files, parsed_models,
                   tables, output, git_log>>
    /\ UNCHANGED notRun

\* lines 1501-1537
Parse ==
    /\ rpc = "validated"
    /\ parsed_models' = [i \in 1..Len(files) |-> ModelParsed(files[i], source_names)]
    /\ rpc' = "parsed"
    /\ UNCHANGED <<dir_exists, docs, source_names, flags, files, issues, tables,
                   output, git_log, exit_code>>
    /\ UNCHANGED notRun

\* lines 1539-1775
Build ==
    /\ rpc = "parsed"
    /\ tables' = build_tables(parsed_models, source_names)
    /\ rpc' = "built"
    /\ UNCHANGED <<dir_exists, docs, source_names, flags, files, issues,
                   parsed_models, output, git_log, exit_code>>
    /\ UNCHANGED notRun

\* lines 1777-1809: the document is written; without --publish main returns
Write ==
    /\ rpc = "built"
    /\ output' = render_document(tables)
    /\ IF flags.publish
       THEN rpc' = "written" /\ UNCHANGED exit_code
       ELSE rpc' = "done" /\ exit_code' = Some(0)
    /\ UNCHANGED <<dir_exists, docs, source_names, flags, files, issues,
                   parsed_models, tables, git_log>>
    /\ UNCHANGED notRun

\* lines 1801-1809
Publish(env) ==
    /\ rpc = "written"
    /\ LET r == publish_to_github(env, flags.publish_dry_run)
       IN  /\ git_log' = r.log
           /\ exit_code' = IF r.ok THEN Some(0) ELSE Some(3)
    /\ rpc' = "done"
    /\ UNCHANGED <<dir_exists, docs, source_names, flags, files, issues,
                   parsed_models, tables, output>>
    /\ UNCHANGED notRun

Init ==
    /\ dir_exists \in BOOLEAN
    /\ docs \in {S \in SUBSET DocPool :
                    Cardinality(S) <= MaxDocs /\ (~dir_exists => S = {})}
    /\ source_names \in PlanPool
    /\ flags \in Flags
    /\ files = <<>>
    /\ issues = <<>>
    /\ parsed_models = <<>>
    /\ tables = None
    /\ output = None
    /\ git_log = <<>>
    /\ exit_code = None
    /\ rpc = "start"
    /\ OthersIdle("run")

Next ==
    \/ \E fs \in Listings(docs) : ListFiles(fs)
    \/ Validate
    \/ Parse
    \/ Build
    \/ Write
    \/ \E env \in GitEnvs : Publish(env)

Spec == Init /\ [][Next]_vars

-----------------------------------------------------------------------------
(* Properties of the daily run *)

\* the names a document gives in its item table
ReportItems(doc) == Range(DictKeys(parse_items(doc)))

\* an item of a report resolves an authoritative name: the same name, a
\* shared alias variant of the normalized names, or bigram similarity of the
\* normalized names of at least 0.55
ResolvedBy(item, nm) ==
    LET a == normalize_item_name(item)
        b == normalize_item_name(nm)
    IN  \/ item = nm
        \/ a # <<>> /\ item_norm_variants(a) \cap item_norm_variants(b) # {}
        \/ a # <<>> /\ ScoreAtLeastThreshold(jaccard_bigrams(a, b))

UnresolvedIn(doc, nm) == \A item \in ReportItems(doc) : ~ResolvedBy(item, nm)

SomeUnresolved ==
    \E i \in 1..Len(files) : \E nm \in Range(source_names) : UnresolvedIn(files[i], nm)

ReportedMissing(doc, nm) ==
    \E k \in 1..Len(issues) :
        issues[k].raw_model = doc.raw_model /\ nm \in Range(issues[k].missing_items)

Validated == rpc \notin {"start", "listed"} /\ files # <<>>

\* every unresolved name is reported as missing, and without --force the run
\* returns non-zero before the output is written and before any publish step
MissingStopsRun ==
    /\ \A i \in 1..Len(files) : \A nm \in Range(source_names) :
          UnresolvedIn(files[i], nm) => ReportedMissing(files[i], nm)
    /\ (SomeUnresolved /\ ~flags.force) =>
          /\ rpc = "done"
          /\ exit_code \notin {None, Some(0)}
          /\ output = None
          /\ git_log = <<>>

\* C1 as claimed: a name of the authoritative list that no item of a source
\* resolves is reported as missing; without --force the run returns non-zero
\* before the output is written and before any publish step; with --force the
\* run continues and writes the output.
C1_ForceAlwaysWrites ==
    Validated =>
        /\ MissingStopsRun
        /\ (SomeUnresolved /\ flags.force /\ rpc = "done") => output # None

\* C1 amended: as above, and with --force and without --validate-only the run
\* continues and writes the output.
C1_MissingStopsUnlessForced ==
    Validated =>
        /\ MissingStopsRun
        /\ (SomeUnresolved /\ flags.force /\ ~flags.validate_only /\ rpc = "done")
              => output # None

C1_Witness ==
    /\ rpc = "done"
    /\ SomeUnresolved
    /\ flags.force /\ ~flags.validate_only
    /\ \E i \in 1..Len(files) : ReportedMissing(files[i], Pharma)
    /\ output # None

\* the document main writes when the listing gives the documents in order fs
DocumentFor(fs) ==
    render_document(
        build_tables([i \in 1..Len(fs) |-> ModelParsed(fs[i], source_names)],
                     source_names))

\* C2: the document written is a function of the set of source documents and
\* of the authoritative item list, whatever the order of the directory listing.
C2_OutputIgnoresListingOrder ==
    output # None => \A fs \in Listings(docs) : DocumentFor(fs) = output

\* the categories found in the inputs
InputCats ==
    UNION {Range(DictKeys(parse_categories(files[i]))) : i \in 1..Len(files)}

\* no source has a classified direction for the category
NoUsableCat(cat) ==
    \A i \in 1..Len(files) : \A j \in 1..Len(files[i].cats) :
        Strip(files[i].cats[j][1]) = cat
            => direction_to_stat(files[i].cats[j][3], TRUE) = NoStat

NoUsableGroup(g) ==
    \A i \in 1..Len(g.entries) : g.entries[i].candidate.direction_stat = NoStat

\* 'disagreement (no clear bias)', 'insufficient data; range' of no magnitude
InsufficientRow(r) ==
    /\ r.cons = [level |-> "fenqi", bias |-> NoBias]
    /\ r.summ = [insufficient |-> TRUE, counts |-> None, range |-> NoRange]

RowsNamed(rows, nm) == {i \in 1..Len(rows) : rows[i].name = nm}

\* C4: each category and each item group found in the inputs has exactly one
\* row in its full table, whatever its votes; the row of an entity for which
\* no source has a classified direction reads 'disagreement (no clear bias)',
\* 'insufficient data; range' of no magnitude.
C4_EveryEntityHasOneRow ==
    output # None =>
        /\ \A cat \in InputCats :
              /\ Cardinality(RowsNamed(output.section1, cat)) = 1
              /\ NoUsableCat(cat) =>
                    \A i \in RowsNamed(output.section1, cat) :
                        InsufficientRow(output.section1[i])
        /\ Len(output.section1) = Cardinality(InputCats)
        /\ \A i \in 1..Len(parsed_models) :
              \A nm \in Range(DictKeys(parsed_models[i].items)) :
                 \E k \in 1..Len(tables.item_groups) :
                    nm \in Range(tables.item_groups[k].names)
        /\ Len(output.section2) = Len(tables.item_groups)
        /\ \A k \in 1..Len(tables.item_groups) :
              /\ output.section2[k].name \in Range(tables.item_groups[k].names)
              /\ NoUsableGroup(tables.item_groups[k])
                    => InsufficientRow(output.section2[k])

C4_Witness ==
    /\ output # None
    /\ NoUsableCat(ChinaStocks)
    /\ \E i \in 1..Len(output.section1) :
          output.section1[i].name = ChinaStocks /\ InsufficientRow(output.section1[i])
    /\ \E k \in 1..Len(tables.item_groups) :
          NoUsableGroup(tables.item_groups[k]) /\ InsufficientRow(output.section2[k])


\* no name of the authoritative list is resolved by the item
Unmappable(item) == \A nm \in Range(source_names) : ~ResolvedBy(item, nm)

\* the items the validator reports as extra for a file
FlaggedExtra(doc) ==
    UNION {Range(issues[k].extra_items) :
              k \in {n \in 1..Len(issues) : issues[n].raw_model = doc.raw_model}}

\* the items of a file that no item kept for the aggregation stands for
Dropped(i) ==
    {item \in ReportItems(files[i]) :
        \A nm \in Range(DictKeys(parsed_models[i].items)) : ~ResolvedBy(item, nm)}

NoneMissing == \A k \in 1..Len(issues) : issues[k].missing_items = <<>>

\* C12: with a non-empty authoritative list, an item of a source that maps to
\* no name of the list (same name, alias variant, bigram similarity of at
\* least 0.55) is reported as extra and nothing else is; extras alone never
\* make the run return 2; the items the aggregation drops are the items
\* reported as extra, and every item row is named by a name of the list.
C12_ExtrasAreDropped ==
    (Validated /\ source_names # <<>>) =>
        /\ \A i \in 1..Len(files) :
              FlaggedExtra(files[i]) = {item \in ReportItems(files[i]) : Unmappable(item)}
        /\ NoneMissing => exit_code # Some(2)
        /\ (NoneMissing /\ ~flags.validate_only /\ rpc = "done") => output # None
        /\ parsed_models # <<>> =>
              \A i \in 1..Len(files) :
                 /\ Dropped(i) = FlaggedExtra(files[i])
                 /\ Range(DictKeys(parsed_models[i].items)) \subseteq Range(source_names)
        /\ output # None =>
              \A k \in 1..Len(output.section2) :
                 output.section2[k].name \in Range(source_names)

C12_Witness ==
    /\ output # None
    /\ source_names = <<GoldEtf>>
    /\ ~flags.force
    /\ \E i \in 1..Len(files) :
          /\ files[i].raw_model = Kimi
          /\ Liquor \in FlaggedExtra(files[i])
          /\ Liquor \in Dropped(i)
          /\ GoldShort \notin Dropped(i)
    /\ Len(output.section2) = 1

\* C19: the publish step has run git commands only in a run that was asked
\* to publish, had already written the output file, and had not stopped on a
\* missing input set, on the validation or in validate-only mode.
C19_PublishOnlyAfterWrite ==
    /\ git_log # <<>> =>
          /\ output # None
          /\ rpc = "done"
          /\ flags.publish /\ ~flags.validate_only
          /\ exit_code \in {Some(0), Some(3)}
    /\ (exit_code \in {Some(1), Some(2)} \/ flags.validate_only \/ output = None)
          => git_log = <<>>

C19_Witness ==
    /\ git_log = <<"rev-parse", "diff", "add", "diff", "commit", "push">>
    /\ output # None
    /\ exit_code = Some(0)

-----------------------------------------------------------------------------
(* scripts/generate_weekly_summary.py: the signals of one row of the weekly *)
(* tables.  A score is the fraction <<num, den>> of two integers, den > 0,  *)
(* or None.  The code holds it as a double: the quotient of two integers is *)
(* correctly rounded, so a test of the double against 0.20 agrees with the  *)
(* test of the fraction against 1/5 (0.20 is the double nearest to 1/5).    *)

\* latest_n_days_range(7): the days of the window of a weekly run
WindowDays == 7

BuBian == <<"bu", "bian">>
NoClearBias == <<"wu", "ming", "xian", "pian", "xiang4">>
WeiChi == <<"wei", "chi">>
Dash == <<"EMDASH">>

LabelInc(is_category) == IF is_category THEN ZengPei ELSE ZengChi
LabelDec(is_category) == IF is_category THEN JianPei ELSE JianChi

CountOf(xs, x) == Cardinality({i \in 1..Len(xs) : xs[i] = x})

calc_main_direction(dir_stats, label_inc, label_dec) ==
    LET counts == [k \in {"zeng", "jian", "bubian"} |-> CountOf(dir_stats, k)]
        total   == counts["zeng"] + counts["jian"] + counts["bubian"]
        max_v   == SetMax({counts[k] : k \in DOMAIN counts})
        winners == {k \in DOMAIN counts : counts[k] = max_v}
    IN  IF total = 0 THEN None
        ELSE IF Cardinality(winners) # 1 THEN NoClearBias
        ELSE IF winners = {"zeng"} THEN label_inc
        ELSE IF winners = {"jian"} THEN label_dec
        ELSE BuBian

signal_score_from_main_dirs(main_dirs, label_inc, label_dec) ==
    LET inc_days  == CountOf(main_dirs, label_inc)
        dec_days  == CountOf(main_dirs, label_dec)
        flat_days == CountOf(main_dirs, BuBian)
        total     == inc_days + dec_days + flat_days
    IN  IF total <= 0 THEN None ELSE <<inc_days - dec_days, total>>

signal_action_strict(score, is_category) ==
    IF score = None THEN Dash
    ELSE IF 5 * score[1] > score[2] THEN LabelInc(is_category)
    ELSE IF 5 * score[1] < -score[2] THEN LabelDec(is_category)
    ELSE WeiChi

signal_action(score, is_category) ==
    IF score = None THEN Dash
    ELSE IF 5 * score[1] >= score[2] THEN LabelInc(is_category)
    ELSE IF 5 * score[1] <= -score[2] THEN LabelDec(is_category)
    ELSE WeiChi

\* f"{abs(score) * 100:.2f}%": the nearest number of hundredths (no score of
\* a denominator below 30 falls halfway between two of them)
signal_strength(score) ==
    IF score = None THEN Dash
    ELSE format_pct((20000 * Abs(score[1]) + score[2]) \div (2 * score[2]))

\* two fractions of the same value
SameValue(x, y) == x[1] * y[2] = y[1] * x[2]

\* abs(score)
Strength(score) == <<Abs(score[1]), score[2]>>

\* x - y >= 0.20 of two strengths held as doubles.  The difference of the
\* doubles is 0.19999999999999996 for 1 - 4/5 and for 3/5 - 2/5, whose exact
\* difference is 1/5; for every other pair of strengths of denominators up to
\* 7 the test on the doubles agrees with the test on the fractions.
FloatDiffAtLeastFifth(x, y) ==
    /\ 5 * (x[1] * y[2] - y[1] * x[2]) >= x[2] * y[2]
    /\ ~(SameValue(x, <<1, 1>>) /\ SameValue(y, <<4, 5>>))
    /\ ~(SameValue(x, <<3, 5>>) /\ SameValue(y, <<2, 5>>))

FanZhuan(early_action, late_action) ==
    <<"fan", "zhuan", "FCOLON">> \o early_action \o <<"RARROW">> \o late_action

\* the test of signal_trend and of signal_trend_metric for a reversal
is_reversal(early_score, late_score, is_category) ==
    LET early_action == signal_action(early_score, is_category)
        late_action  == signal_action(late_score, is_category)
    IN  early_action # late_action /\ early_action # WeiChi /\ late_action # WeiChi

signal_trend_no_reversal(early_score, late_score, is_category) ==
    IF early_score = None \/ late_score = None THEN Dash
    ELSE IF FloatDiffAtLeastFifth(Strength(late_score), Strength(early_score))
         THEN <<"bian", "qiang">>
    ELSE IF FloatDiffAtLeastFifth(Strength(early_score), Strength(late_score))
         THEN <<"bian", "ruo">>
    ELSE <<"wen", "ding">>

signal_trend(early_score, late_score, is_category) ==
    IF early_score = None \/ late_score = None THEN Dash
    ELSE IF is_reversal(early_score, late_score, is_category)
         THEN FanZhuan(signal_action(early_score, is_category),
                       signal_action(late_score, is_category))
    ELSE IF FloatDiffAtLeastFifth(Strength(late_score), Strength(early_score))
         THEN <<"bian", "qiang">>
    ELSE IF FloatDiffAtLeastFifth(Strength(early_score), Strength(late_score))
         THEN <<"bian", "ruo">>
    ELSE <<"wen", "ding">>

\* the pairs <<x, y>> of strengths of denominators 1 to 6, x < y, in lowest
\* terms, whose double abs(x - y) is not the double nearest to the exact
\* difference, with the number of units in the last place it lies above it
FloatDiffDeviations ==
    { <<1, 6, 1, 5, 3>>, <<1, 6, 1, 4, 1>>, <<1, 6, 2, 5, 1>>,
      <<1, 6, 1, 2, 1>>, <<1, 6, 4, 5, 1>>, <<1, 6, 5, 6, 1>>,
      <<1, 5, 1, 4, -2>>, <<1, 5, 1, 3, -1>>, <<1, 5, 3, 5, -1>>,
      <<1, 5, 2, 3, -1>>, <<1, 5, 4, 5, 1>>, <<1, 4, 1, 3, -1>>,
      <<1, 4, 2, 5, 1>>, <<1, 4, 2, 3, -1>>, <<1, 3, 2, 5, 3>>,
      <<1, 3, 1, 2, 1>>, <<1, 3, 4, 5, 1>>, <<1, 3, 1, 1, 1>>,
      <<2, 5, 1, 2, -2>>, <<2, 5, 3, 5, -2>>, <<2, 5, 2, 3, -1>>,
      <<1, 2, 3, 5, -2>>, <<1, 2, 2, 3, -1>>, <<1, 2, 4, 5, 1>>,
      <<1, 2, 5, 6, 1>>, <<3, 5, 2, 3, -1>>, <<3, 5, 3, 4, 1>>,
      <<3, 5, 4, 5, 2>>, <<3, 5, 5, 6, 2>>, <<2, 3, 3, 4, 3>>,
      <<2, 3, 4, 5, 3>>, <<2, 3, 5, 6, 3>>, <<2, 3, 1, 1, 1>>,
      <<3, 4, 4, 5, 6>>, <<3, 4, 5, 6, 3>>, <<4, 5, 5, 6, -1>>,
      <<4, 5, 1, 1, -2>>, <<5, 6, 1, 1, -1>> }

\* by how many units in the last place the double abs(x - y) of two
\* strengths lies above the double nearest to the exact difference
FloatDiffDeviation(x, y) ==
    LET is(a, b) == \/ SameValue(x, a) /\ SameValue(y, b)
                    \/ SameValue(x, b) /\ SameValue(y, a)
        hits == {t \in FloatDiffDeviations : is(<<t[1], t[2]>>, <<t[3], t[4]>>)}
    IN  IF hits = {} THEN 0 ELSE (CHOOSE t \in hits : TRUE)[5]

\* a metric is None or <<num, den, deviation>>: the double that lies
\* deviation units in the last place above the double nearest to num / den
signal_trend_metric(early_score, late_score, is_category) ==
    IF early_score = None \/ late_score = None THEN None
    ELSE IF is_reversal(early_score, late_score, is_category) THEN <<1, 1, 0>>
    ELSE LET l == Strength(late_score)
             e == Strength(early_score)
         IN  <<Abs(l[1] * e[2] - e[1] * l[2]), l[2] * e[2], FloatDiffDeviation(l, e)>>

\* abs(week_score) as a metric
strength_value(week_score) ==
    IF week_score = None THEN None ELSE <<Abs(week_score[1]), week_score[2], 0>>

\* n_days // 2, at least 1 when there is a day (line 587)
k_half_of(n_days) == IF n_days = 0 THEN 0 ELSE IF n_days \div 2 < 1 THEN 1 ELSE n_days \div 2

\* lines 590-634 and 638-682: the signals of one row; days[i] is the row of
\* the entity in the i-th input: whether it has one, and the direction
\* classes of its cells
signal_row(days, is_category) ==
    With([i \in 1..Len(days) |->
             IF ~days[i].row THEN None
             ELSE calc_main_direction(days[i].stats, LabelInc(is_category),
                                      LabelDec(is_category))],
         LAMBDA main_dirs :
    With(k_half_of(Len(days)), LAMBDA k_half :
    With(signal_score_from_main_dirs(main_dirs, LabelInc(is_category),
                                     LabelDec(is_category)), LAMBDA week_score :
    With(IF k_half = 0 THEN None
         ELSE signal_score_from_main_dirs(SubSeq(main_dirs, 1, k_half),
                  LabelInc(is_category), LabelDec(is_category)), LAMBDA early_score :
    With(IF k_half = 0 THEN None
         ELSE signal_score_from_main_dirs(
                  SubSeq(main_dirs, Len(main_dirs) - k_half + 1, Len(main_dirs)),
                  LabelInc(is_category), LabelDec(is_category)), LAMBDA late_score :
         [main_dirs      |-> main_dirs,
          week_score     |-> week_score,
          early_score    |-> early_score,
          late_score     |-> late_score,
          action         |-> signal_action(week_score, is_category),
          strength       |-> signal_strength(week_score),
          trend          |-> signal_trend(early_score, late_score, is_category),
          strength_value |-> strength_value(week_score),
          trend_value    |-> signal_trend_metric(early_score, late_score,
                                                 is_category)])))))

-----------------------------------------------------------------------------
(* The signal run: the rows of one entity are read from the daily outputs   *)
(* of the window, then its signals are derived                              *)

\* what a daily output can hold for the entity: no row, a row without a
\* classified direction, one vote, two opposed votes
DayPool ==
    { [row |-> FALSE, stats |-> <<>>],
      [row |-> TRUE, stats |-> <<NoStat>>],
      [row |-> TRUE, stats |-> <<"zeng">>],
      [row |-> TRUE, stats |-> <<"jian">>],
      [row |-> TRUE, stats |-> <<"bubian">>],
      [row |-> TRUE, stats |-> <<"zeng", "jian">>] }

ReadDay(d) ==
    /\ gpc = "read"
    /\ Len(sg_days) < WindowDays
    /\ sg_days' = Append(sg_days, d)
    /\ UNCHANGED <<sg_cat, sg_out, gpc>>
    /\ UNCHANGED notSig

Signals ==
    /\ gpc = "read"
    /\ sg_out' = signal_row(sg_days, sg_cat)
    /\ gpc' = "done"
    /\ UNCHANGED <<sg_cat, sg_days>>
    /\ UNCHANGED notSig

SigInit ==
    /\ sg_cat \in BOOLEAN
    /\ sg_days = <<>>
    /\ sg_out = None
    /\ gpc = "read"
    /\ OthersIdle("sig")

SigNext ==
    \/ \E d \in DayPool : ReadDay(d)
    \/ Signals

SpecSignal == SigInit /\ [][SigNext]_vars

-----------------------------------------------------------------------------
(* Properties of the weekly signals *)

SigDone == gpc = "done"

\* the score is at least 1/5, at most -1/5
ScoreUp(score) == score # None /\ 5 * score[1] >= score[2]
ScoreDown(score) == score # None /\ 5 * score[1] <= -score[2]

\* days a..b were won by the label
DaysWon(a, b, label) == \A i \in a..b : sg_out.main_dirs[i] = label

\* C15: whenever the early and the late action are both increase or decrease
\* and differ, the trend is 'reversal: early -> late', whatever the scores;
\* a row that wins increase on days 1-4 and decrease on days 5-7 of seven days
\* reads reversal from increase to decrease.
C15_ReversalWhateverMagnitude ==
    SigDone =>
        /\ (ScoreUp(sg_out.early_score) /\ ScoreDown(sg_out.late_score))
              => sg_out.trend = FanZhuan(LabelInc(sg_cat), LabelDec(sg_cat))
        /\ (ScoreDown(sg_out.early_score) /\ ScoreUp(sg_out.late_score))
              => sg_out.trend = FanZhuan(LabelDec(sg_cat), LabelInc(sg_cat))
        /\ (Len(sg_days) = 7 /\ DaysWon(1, 4, LabelInc(sg_cat))
                             /\ DaysWon(5, 7, LabelDec(sg_cat)))
              => sg_out.trend = FanZhuan(LabelInc(sg_cat), LabelDec(sg_cat))

C15_Witness ==
    /\ SigDone
    /\ Len(sg_days) = 7
    /\ DaysWon(1, 4, LabelInc(sg_cat))
    /\ DaysWon(5, 7, LabelDec(sg_cat))
    /\ sg_out.trend = FanZhuan(LabelInc(sg_cat), LabelDec(sg_cat))

\* the days a..b on which the entity has at least one usable vote
UsableDays(a, b) ==
    {i \in a..b : sg_days[i].row /\ \E j \in 1..Len(sg_days[i].stats) :
                                       sg_days[i].stats[j] # NoStat}

\* the votes of day i are won by the class
WonBy(i, class) ==
    /\ CountOf(sg_days[i].stats, class) > 0
    /\ \A k \in {"zeng", "jian", "bubian"} \ {class} :
          CountOf(sg_days[i].stats, k) < CountOf(sg_days[i].stats, class)

\* the score of days a..b is (days won by increase - days won by decrease)
\* over the days with a usable vote, None when there is no such day
ScoreOverUsableDays(score, a, b) ==
    LET inc == Cardinality({i \in UsableDays(a, b) : WonBy(i, "zeng")})
        dec == Cardinality({i \in UsableDays(a, b) : WonBy(i, "jian")})
    IN  IF UsableDays(a, b) = {} THEN score = None
        ELSE score # None /\ SameValue(score, <<inc - dec, Cardinality(UsableDays(a, b))>>)

\* C16: for the whole window and for each half, the signal score is (days won
\* by increase - days won by decrease) over the days on which the entity had
\* a usable vote, days won by unchanged and tied days included; no such day,
\* no score.
C16_ScoreOverUsableDays ==
    SigDone =>
        LET n == Len(sg_days)
            k == k_half_of(n)
        IN  /\ ScoreOverUsableDays(sg_out.week_score, 1, n)
            /\ ScoreOverUsableDays(sg_out.early_score, 1, k)
            /\ ScoreOverUsableDays(sg_out.late_score, n - k + 1, n)

\* the number of hundredths a percentage text reads as
PercentRead(text) == parse_float_from_text(text)[1]

\* C17: the action is increase iff the score is at least 1/5, decrease iff it
\* is at most -1/5, hold for every other score and the dash iff there is no
\* score; three increase days and two decrease days of five give increase,
\* two and three give decrease; the strength is the percentage nearest to
\* |score|, with two decimals.
C17_ActionThresholds ==
    SigDone =>
        LET s == sg_out.week_score
        IN  /\ sg_out.action = LabelInc(sg_cat) <=> ScoreUp(s)
            /\ sg_out.action = LabelDec(sg_cat) <=> ScoreDown(s)
            /\ sg_out.action = WeiChi <=> (s # None /\ ~ScoreUp(s) /\ ~ScoreDown(s))
            /\ sg_out.action = Dash <=> s = None
            /\ (s # None /\ SameValue(s, <<1, 5>>)) => sg_out.action = LabelInc(sg_cat)
            /\ (s # None /\ SameValue(s, <<-1, 5>>)) => sg_out.action = LabelDec(sg_cat)
            /\ s = None => sg_out.strength = Dash
            /\ s # None =>
                  /\ sg_out.strength[Len(sg_out.strength)] = "%"
                  /\ 2 * Abs(10000 * Abs(s[1]) - PercentRead(sg_out.strength) * s[2])
                        <= s[2]

C17_Witness ==
    /\ SigDone
    /\ Len(sg_days) = 5
    /\ CountOf(sg_out.main_dirs, LabelInc(sg_cat)) = 3
    /\ CountOf(sg_out.main_dirs, LabelDec(sg_cat)) = 2
    /\ sg_out.week_score = <<1, 5>>
    /\ sg_out.action = LabelInc(sg_cat)
    /\ sg_out.strength = <<"2", "0", ".", "0", "0", "%">>

-----------------------------------------------------------------------------
(* The focus lists of the week: the rows of the categories and of the items *)
(* are derived one entity at a time, then the two lists are sorted and cut  *)

\* [:10] of focus_strong and focus_change
FocusTop == 10

\* xs[:n]
Take(xs, n) == SubSeq(xs, 1, Min(n, Len(xs)))

\* a < b for two metrics that are doubles
MetricLess(a, b) ==
    \/ a[1] * b[2] < b[1] * a[2]
    \/ a[1] * b[2] = b[1] * a[2] /\ a[3] < b[3]

\* the key (x is None, -(x or 0.0), name) of one candidate is less than the
\* key of another; Metric gives x
focus_key_less(a, b, Metric(_)) ==
    IF (Metric(a) = None) # (Metric(b) = None) THEN Metric(b) = None
    ELSE IF Metric(a) # None /\ MetricLess(Metric(b), Metric(a)) THEN TRUE
    ELSE IF Metric(a) # None /\ MetricLess(Metric(a), Metric(b)) THEN FALSE
    ELSE StrLess(a.name, b.name)

\* one entry of focus_candidates, lines 685-709, from the metrics of the row
focus_candidate(nm, days, is_category) ==
    With(signal_row(days, is_category), LAMBDA met :
         [name           |-> nm,
          action         |-> met.action,
          strength       |-> met.strength,
          trend          |-> met.trend,
          strength_value |-> met.strength_value,
          trend_value    |-> met.trend_value])

StrengthOf(x) == x.strength_value
TrendOf(x) == x.trend_value

\* lines 711-712
focus_strong(focus_candidates) ==
    Take(StableSort(focus_candidates,
                    LAMBDA a, b : focus_key_less(a, b, StrengthOf)), FocusTop)

focus_change(focus_candidates) ==
    Take(StableSort(focus_candidates,
                    LAMBDA a, b : focus_key_less(a, b, TrendOf)), FocusTop)

\* the names of the week's categories and items, in the order of their first
\* appearance in the daily outputs
FocusCatNames == << <<"c", "a">>, <<"a", "a">> >>
FocusItemNames ==
    << <<"e">>, <<"b">>, <<"h">>, <<"a">>, <<"c">>, <<"g">>, <<"d">>, <<"i">>,
       <<"f">> >>

NoRow == [row |-> FALSE, stats |-> <<>>]
NoVote == [row |-> TRUE, stats |-> <<NoStat>>]
Vote(class) == [row |-> TRUE, stats |-> <<class>>]

\* the daily rows of an entity over a window of seven outputs: never a
\* classified direction; flat then one increase day of the last three; two
\* increase days of the first three then increase throughout
FocusDays ==
    { [i \in 1..WindowDays |-> NoVote],
      <<Vote("bubian"), Vote("bubian"), Vote("bubian"), NoRow,
        Vote("zeng"), Vote("bubian"), Vote("bubian")>>,
      <<Vote("zeng"), Vote("zeng"), Vote("bubian"), NoRow,
        Vote("zeng"), Vote("zeng"), Vote("zeng")>> }

\* the daily rows of a category that turns from increase to decrease
FocusCatDays ==
    <<Vote("zeng"), Vote("zeng"), Vote("zeng"), NoRow,
      Vote("jian"), Vote("jian"), Vote("jian")>>

\* one turn of the loop of lines 591-634
FocusCategory ==
    /\ fpc = "collect"
    /\ fc_items = <<>>
    /\ Len(fc_cats) < Len(FocusCatNames)
    /\ fc_cats' = Append(fc_cats,
                     focus_candidate(FocusCatNames[Len(fc_cats) + 1], FocusCatDays,
                                     TRUE))
    /\ UNCHANGED <<fc_items, fc_out, fpc>>
    /\ UNCHANGED notFocus

\* one turn of the loop of lines 638-682
FocusItem(days) ==
    /\ fpc = "collect"
    /\ Len(fc_items) < Len(FocusItemNames)
    /\ fc_items' = Append(fc_items,
                      focus_candidate(FocusItemNames[Len(fc_items) + 1], days, FALSE))
    /\ UNCHANGED <<fc_cats, fc_out, fpc>>
    /\ UNCHANGED notFocus

\* lines 685-712
FocusLists ==
    /\ fpc = "collect"
    /\ fc_out' = [focus_strong |-> focus_strong(fc_cats \o fc_items),
                  focus_change |-> focus_change(fc_cats \o fc_items)]
    /\ fpc' = "done"
    /\ UNCHANGED <<fc_cats, fc_items>>
    /\ UNCHANGED notFocus

FocusInit ==
    /\ fc_cats = <<>>
    /\ fc_items = <<>>
    /\ fc_out = None
    /\ fpc = "collect"
    /\ OthersIdle("focus")

FocusNext ==
    \/ FocusCategory
    \/ \E days \in FocusDays : FocusItem(days)
    \/ FocusLists

SpecFocus == FocusInit /\ [][FocusNext]_vars

-----------------------------------------------------------------------------
(* Properties of the focus lists *)

FocusDone == fpc = "done"

\* the value of metric a is above, equal to, the value of metric b
ValueAbove(a, b) == a[1] * b[2] > b[1] * a[2]
ValueEqual(a, b) == a[1] * b[2] = b[1] * a[2]

\* entry a may stand directly before entry b in a list ordered by descending
\* metric, ties by ascending name, entries without a metric last
MayPrecede(a, b, Metric(_)) ==
    IF Metric(a) = None THEN Metric(b) = None /\ ~StrLess(b.name, a.name)
    ELSE IF Metric(b) = None THEN TRUE
    ELSE \/ ValueAbove(Metric(a), Metric(b))
         \/ ValueEqual(Metric(a), Metric(b)) /\ ~StrLess(b.name, a.name)

\* the candidates that are not in the list
LeftOut(list) ==
    {x \in Range(fc_cats \o fc_items) : \A i \in 1..Len(list) : list[i].name # x.name}

FocusListAsClaimed(list, Metric(_)) ==
    /\ Len(list) <= 10
    /\ Range(list) \subseteq Range(fc_cats \o fc_items)
    /\ \A i \in 1..(Len(list) - 1) : MayPrecede(list[i], list[i + 1], Metric)
    /\ \A x \in LeftOut(list) : \A i \in 1..Len(list) :
          /\ Metric(x) # None => Metric(list[i]) # None
          /\ (Metric(x) # None /\ Metric(list[i]) # None)
                => ~ValueAbove(Metric(x), Metric(list[i]))

\* C18: each focus list has at most 10 entries, all of them categories or
\* items of the week, in the order of descending metric (strength of the week
\* for the first list, trend magnitude for the second) with equal metrics in
\* ascending order of the names; nothing left out has a larger metric than an
\* entry, and the entities without a metric come after all the others.
C18_FocusListsOrdered ==
    FocusDone =>
        /\ FocusListAsClaimed(fc_out.focus_strong, StrengthOf)
        /\ FocusListAsClaimed(fc_out.focus_change, TrendOf)

\* the list of the strengths alone is as stated
FocusStrongAsClaimed ==
    FocusDone => FocusListAsClaimed(fc_out.focus_strong, StrengthOf)

\* two entries of the list of the trends have the same magnitude and stand
\* against the order of their names
TrendTieAgainstNames ==
    /\ FocusDone
    /\ \E i \in 1..(Len(fc_out.focus_change) - 1) :
          LET a == fc_out.focus_change[i]
              b == fc_out.focus_change[i + 1]
          IN  /\ a.trend_value # None /\ b.trend_value # None
              /\ ValueEqual(a.trend_value, b.trend_value)
              /\ StrLess(b.name, a.name)


\* entry a may stand directly before entry b when the doubles are compared
MayPrecedeAsDoubles(a, b, Metric(_)) ==
    IF Metric(a) = None THEN Metric(b) = None /\ ~StrLess(b.name, a.name)
    ELSE IF Metric(b) = None THEN TRUE
    ELSE \/ MetricLess(Metric(b), Metric(a))
         \/ ~MetricLess(Metric(a), Metric(b)) /\ ~StrLess(b.name, a.name)

\* the list of the trends is in the order of the computed doubles, and nothing
\* left out has a larger magnitude than an entry
FocusChangeAsComputed ==
    FocusDone =>
        LET list == fc_out.focus_change
        IN  /\ Len(list) <= 10
            /\ Range(list) \subseteq Range(fc_cats \o fc_items)
            /\ \A i \in 1..(Len(list) - 1) :
                  MayPrecedeAsDoubles(list[i], list[i + 1], TrendOf)
            /\ \A x \in LeftOut(list) : \A i \in 1..Len(list) :
                  /\ TrendOf(x) # None => TrendOf(list[i]) # None
                  /\ (TrendOf(x) # None /\ TrendOf(list[i]) # None)
                        => ~ValueAbove(TrendOf(x), TrendOf(list[i]))

-----------------------------------------------------------------------------
(* Grouping: the three loops that place one entry after the other into the  *)
(* groups of the daily items, the daily themes and the weekly themes        *)

\* the most entries handed to one grouping loop
MaxEntries == 3

\* the most item entries handed to the loop of the daily items
MaxItems == 4

\* _topic_tokens of the weekly script: the runs of [a-z0-9] and the bigrams
\* of the runs of two or more CJK characters
weekly_topic_tokens(norm) ==
    With(class_runs(Lower(normalize_text(norm))), LAMBDA runs :
         {runs[i] : i \in {k \in 1..Len(runs) : CharClass(runs[k][1]) = "alnum"}}
         \cup UNION {{SubSeq(runs[i], k, k + 1) : k \in 1..(Len(runs[i]) - 1)} :
                       i \in {k \in 1..Len(runs) : CharClass(runs[k][1]) = "cjk"}})

\* topics_similar of the weekly script
topics_similar(a_norm, b_norm) ==
    IF a_norm = <<>> \/ b_norm = <<>> THEN FALSE
    ELSE IF a_norm = b_norm THEN TRUE
    ELSE IF Contains(b_norm, a_norm) \/ Contains(a_norm, b_norm) THEN TRUE
    ELSE Cardinality(weekly_topic_tokens(a_norm) \cap weekly_topic_tokens(b_norm)) >= 2

\* the ThemeCell of a theme named in a daily output
ThemeCell(topic, canonical_model) ==
    [topic           |-> topic,
     topic_norm      |-> normalize_topic_name_weekly(topic),
     canonical_model |-> canonical_model]

\* lines 718-726 of the weekly script, one turn of the loop: a cell joins the
\* first group whose first cell is similar to it, else it opens a group
place_weekly(gs, tc) ==
    LET hits == {i \in 1..Len(gs) : topics_similar(tc.topic_norm, gs[i][1].topic_norm)}
    IN  IF hits # {} THEN [gs EXCEPT ![SetMin(hits)] = Append(@, tc)]
        ELSE Append(gs, <<tc>>)

\* names of themes and of items as the sources write them
PiaoJi == <<"piao", "ji1">>
HuangJinGuPiao == <<"huang", "jin", "gu", "piao">>
JinGuPiaoJi == <<"jin", "gu", "piao", "ji1">>
HuangJinPiaoJi == <<"huang", "jin", "piao", "ji1">>
PharmaStocks == <<"chuang", "xin", "yao", "ye", "gu", "piao">>
PharmaStocksJi == <<"chuang", "xin", "yao", "ye", "gu", "piao", "ji1">>

ThemeNames == {PiaoJi, HuangJinGuPiao, JinGuPiaoJi, HuangJinPiaoJi, Gold}
Nasdaq == <<"n", "a", "s", "d", "a", "q">>
Sp500x == <<"s", "p", "5", "0", "0", "x">>
Sp500xNasdaq == Sp500x \o Nasdaq

ItemNames == {Pharma, PharmaLong, PharmaStocks, PharmaStocksJi, Nasdaq, Sp500x, Sp500xNasdaq}
GroupSources == {Gpt, Kimi}

\* the group the entry went to: the one that is new or has changed
placed_at(gs, gs2) ==
    CHOOSE i \in 1..Len(gs2) : i > Len(gs) \/ gs2[i] # gs[i]

\* the entry is appended to the input, the groups are those of the loop's
\* turn, and the position of the entry is recorded with its group
Placed(e, gs2) ==
    /\ gr_entries' = Append(gr_entries, e)
    /\ gr_groups' = gs2
    /\ gr_index' = With(placed_at(gr_groups, gs2), LAMBDA i :
                        IF i > Len(gr_index)
                        THEN Append(gr_index, <<Len(gr_entries) + 1>>)
                        ELSE [gr_index EXCEPT ![i] = Append(@, Len(gr_entries) + 1)])
    /\ UNCHANGED <<gr_kind, gr_rows, qpc>>
    /\ UNCHANGED notGrp

\* lines 1573-1581 of the daily script: the sources are read one after the
\* other, and the items of a source are a dict, so a name comes once from it
NextOfSources(nm, canonical_model) ==
    /\ \A i \in 1..Len(gr_entries) :
          gr_entries[i].canonical_model = canonical_model
              => /\ gr_entries[i].name # nm
                 /\ \A j \in i..Len(gr_entries) :
                       gr_entries[j].canonical_model = canonical_model

PlaceItem(nm, raw_model) ==
    /\ gr_kind = "item"
    /\ qpc = "place"
    /\ Len(gr_entries) < MaxItems
    /\ NextOfSources(nm, canonicalize_model(raw_model))
    /\ With(ItemEntry(nm, None, canonicalize_model(raw_model)), LAMBDA ie :
            Placed(ie, place_item(gr_groups, ie, <<>>)))

PlaceTheme(topic, raw_model) ==
    /\ gr_kind = "theme"
    /\ qpc = "place"
    /\ Len(gr_entries) < MaxEntries
    /\ With([col |-> canonicalize_model(raw_model),
             te  |-> ThemeEntry(<<topic, Some(500), OfNew>>, raw_model)], LAMBDA e :
            Placed(e, place_theme(gr_groups, e)))

PlaceWeekly(topic, raw_model) ==
    /\ gr_kind = "weekly"
    /\ qpc = "place"
    /\ Len(gr_entries) < MaxEntries
    /\ With(ThemeCell(topic, canonicalize_model(raw_model)), LAMBDA tc :
            Placed(tc, place_weekly(gr_groups, tc)))

\* lines 1713-1775 of the daily script: the groups sorted, one row for each
ThemeRows ==
    /\ gr_kind = "theme"
    /\ qpc = "place"
    /\ gr_rows' =
          With(SortedSeqOf({gr_entries[i].col : i \in 1..Len(gr_entries)}, ModelKeyLess),
               LAMBDA cols :
          With(StableSort(gr_groups, ThemeGroupLess), LAMBDA tgs :
               [i \in 1..Len(tgs) |-> theme_row(tgs[i], cols, <<>>)]))
    /\ qpc' = "done"
    /\ UNCHANGED <<gr_kind, gr_entries, gr_groups, gr_index>>
    /\ UNCHANGED notGrp

GrpInit ==
    /\ gr_kind \in {"item", "theme", "weekly"}
    /\ gr_entries = <<>>
    /\ gr_groups = <<>>
    /\ gr_index = <<>>
    /\ gr_rows = None
    /\ qpc = "place"
    /\ OthersIdle("grp")

GrpNext ==
    \/ \E nm \in ItemNames, m \in GroupSources : PlaceItem(nm, m)
    \/ \E topic \in ThemeNames, m \in GroupSources : PlaceTheme(topic, m)
    \/ \E topic \in ThemeNames, m \in GroupSources : PlaceWeekly(topic, m)
    \/ ThemeRows

SpecGroup == GrpInit /\ [][GrpNext]_vars


-----------------------------------------------------------------------------
(* Properties of the grouping *)

\* the members of a group, in the order they joined
Members(g) == IF gr_kind = "weekly" THEN g ELSE g.entries

IsPrefixOf(s, t) == Len(s) <= Len(t) /\ SubSeq(t, 1, Len(s)) = s

\* the group, by its place in the order of creation, that holds entry k
GroupOf(k) == CHOOSE g \in 1..Len(gr_index) : k \in Range(gr_index[g])

\* two entries are similar: for a theme of the daily script, the one matches
\* the group that holds the other alone
SimilarEntries(a, b) ==
    CASE gr_kind = "item" -> item_norm_similar(a.name_norm, b.name_norm)
      [] gr_kind = "theme" -> theme_match(a.te, place_theme(<<>>, b)[1])
      [] gr_kind = "weekly" -> topics_similar(a.topic_norm, b.topic_norm)

\* the groups that had, when entry k came, a member similar to it
GroupsSimilarTo(k) ==
    {g \in 1..Len(gr_index) :
        \E m \in 1..Len(gr_index[g]) :
           gr_index[g][m] < k /\ SimilarEntries(gr_entries[k], gr_entries[gr_index[g][m]])}

\* entry k is in the earliest group that had a member similar to it, and
\* opened its group only when there was none
PlacedBySingleLinkage(k) ==
    IF GroupsSimilarTo(k) # {} THEN GroupOf(k) = SetMin(GroupsSimilarTo(k))
    ELSE gr_index[GroupOf(k)][1] = k

\* every entry is a member of exactly one group, once
EachInOneGroup ==
    /\ Len(gr_index) = Len(gr_groups)
    /\ \A g \in 1..Len(gr_groups) :
          /\ Len(Members(gr_groups[g])) = Len(gr_index[g])
          /\ Len(gr_index[g]) >= 1
          /\ \A m \in 1..Len(gr_index[g]) :
                Members(gr_groups[g])[m] = gr_entries[gr_index[g][m]]
    /\ \A k \in 1..Len(gr_entries) :
          Cardinality({<<g, m>> \in (1..Len(gr_index)) \X (1..Len(gr_entries)) :
                          m <= Len(gr_index[g]) /\ gr_index[g][m] = k}) = 1

\* a step keeps every group in its place with its members: no entry moves and
\* no two groups become one
GroupsOnlyGrow ==
    \A g \in 1..Len(gr_groups) :
       /\ g <= Len(gr_groups')
       /\ IsPrefixOf(Members(gr_groups[g]), Members(gr_groups'[g]))

\* C20: in the three groupings every entry joins the earliest-created group
\* that has a member similar to it and opens a group only when no group has
\* one; a placed entry never changes group, groups are never merged, and
\* every entry is in exactly one group.
C20_GreedySingleLinkage ==
    /\ [](EachInOneGroup /\ \A k \in 1..Len(gr_entries) : PlacedBySingleLinkage(k))
    /\ [][GroupsOnlyGrow]_vars

\* what holds of the three groupings
GroupsArePartition == [][GroupsOnlyGrow]_vars /\ []EachInOneGroup

\* the items of the daily script are placed as stated
ItemsBySingleLinkage ==
    gr_kind = "item" => \A k \in 1..Len(gr_entries) : PlacedBySingleLinkage(k)

\* a weekly theme opens a group although a group has a member similar to it
WeeklyMemberNotLinked ==
    /\ gr_kind = "weekly"
    /\ \E k \in 1..Len(gr_entries) :
          GroupsSimilarTo(k) # {} /\ gr_index[GroupOf(k)][1] = k

\* a daily theme joins a group none of whose members is similar to it
ThemeJoinsWithoutSimilarMember ==
    /\ gr_kind = "theme"
    /\ \E k \in 1..Len(gr_entries) :
          GroupsSimilarTo(k) = {} /\ gr_index[GroupOf(k)][1] # k

\* the topic tokens of entries i and j of the daily themes share two or more
ShareTwoTokens(i, j) ==
    Cardinality(topic_tokens(gr_entries[i].te.topic_norm)
                \cap topic_tokens(gr_entries[j].te.topic_norm)) >= 2

\* a row has a merge note that lists both raw names
MergedInOneRow(a, b) ==
    \E r \in 1..Len(gr_rows) : \E n \in 1..Len(gr_rows[r].notes) :
       /\ gr_rows[r].notes[n].kind = "merge"
       /\ {a, b} \subseteq Range(gr_rows[r].notes[n].names)

NamesDiffer(i, j) == gr_entries[i].te.topic # gr_entries[j].te.topic

\* C11 as stated: two daily themes whose token sets share two tokens or more
\* are in one group, and the rows built hold a merge note with both names
\* when the names differ.
C11_SharedTokensSameGroup ==
    gr_kind = "theme" =>
        \A i, j \in 1..Len(gr_entries) :
           ShareTwoTokens(i, j) =>
              /\ GroupOf(i) = GroupOf(j)
              /\ (qpc = "done" /\ NamesDiffer(i, j))
                    => MergedInOneRow(gr_entries[i].te.topic, gr_entries[j].te.topic)

\* C11: a daily theme that shares two tokens or more with an earlier entry
\* joins the group of that entry or a group created before it; two entries of
\* one group with different names are rendered in one row whose merge note
\* lists both names.
C11_SharedTokensJoinNoLaterGroup ==
    gr_kind = "theme" =>
        \A i, j \in 1..Len(gr_entries) :
           /\ (i < j /\ ShareTwoTokens(i, j)) => GroupOf(j) <= GroupOf(i)
           /\ (qpc = "done" /\ GroupOf(i) = GroupOf(j) /\ NamesDiffer(i, j))
                 => MergedInOneRow(gr_entries[i].te.topic, gr_entries[j].te.topic)

C11_Witness ==
    /\ gr_kind = "theme"
    /\ qpc = "done"
    /\ \E i, j \in 1..Len(gr_entries) :
          /\ i < j
          /\ ShareTwoTokens(i, j)
          /\ NamesDiffer(i, j)
          /\ gr_entries[i].col # gr_entries[j].col
          /\ GroupOf(i) = GroupOf(j)
          /\ MergedInOneRow(gr_entries[i].te.topic, gr_entries[j].te.topic)

-----------------------------------------------------------------------------
(* The input sets: how the final report of a day and the weekly summary     *)
(* collect their documents; the daily aggregator does it in ListFiles       *)

\* the days a file name can carry
FileDays == 1..3

\* the files a directory can hold: the advice of a source for a day
\* (<day>_<model>_投资建议.md), the daily output of a day
\* (<day>_最终投资总结.md)
FilePool == [day : 1..2, kind : {"advice", "final"}]

\* the windows asked for with --week-start and --week-end, and no window
WindowPool == {<<a, b>> \in FileDays \X FileDays : a <= b} \cup {None}

\* the set as a list in ascending order
RECURSIVE Ascending(_)
Ascending(S) ==
    IF S = {} THEN <<>> ELSE <<SetMin(S)>> \o Ascending(S \ {SetMin(S)})

\* collect_files and main of generate_daily_final_report.py, lines 463-481
\* and 643: SystemExit with a message ends the process with status 1
FinalReport ==
    /\ in_prog = "final"
    /\ ipc = "start"
    /\ IF in_dir = None
       THEN /\ in_exit' = Some(1)
            /\ UNCHANGED <<in_inputs, in_written>>
       ELSE With({f \in in_dir[1] : f.kind = "advice" /\ f.day = in_args}, LAMBDA found :
                 IF found = {}
                 THEN /\ in_exit' = Some(1)
                      /\ UNCHANGED <<in_inputs, in_written>>
                 ELSE /\ in_inputs' = Ascending({f.day : f \in found})
                      /\ in_written' = TRUE
                      /\ in_exit' = Some(0))
    /\ ipc' = "done"
    /\ UNCHANGED <<in_prog, in_dir, in_args>>
    /\ UNCHANGED notIn

\* latest_n_days_range(7), lines 883-896: the window that ends on the latest
\* daily output, on today (a day after every file) when there is none
latest_n_days_range(dir_files) ==
    With({f.day : f \in {g \in dir_files : g.kind = "final"}}, LAMBDA ds :
         With(IF ds = {} THEN 3 ELSE SetMax(ds), LAMBDA end :
              <<end - (WindowDays - 1), end>>))

\* main of generate_weekly_summary.py, lines 950-963, with the listing of
\* compute_weekly, lines 468-480; iterdir() of a missing directory raises
\* and the process ends with status 1
WeeklySummary ==
    /\ in_prog = "weekly"
    /\ ipc = "start"
    /\ IF in_dir = None
       THEN /\ in_exit' = Some(1)
            /\ UNCHANGED <<in_inputs, in_written>>
       ELSE With(IF in_args # None THEN in_args ELSE latest_n_days_range(in_dir[1]),
                 LAMBDA week :
                 /\ in_inputs' = Ascending({f.day : f \in {g \in in_dir[1] :
                                     /\ g.kind = "final"
                                     /\ week[1] <= g.day /\ g.day <= week[2]}})
                 /\ in_written' = TRUE
                 /\ in_exit' = Some(0))
    /\ ipc' = "done"
    /\ UNCHANGED <<in_prog, in_dir, in_args>>
    /\ UNCHANGED notIn

InInit ==
    /\ in_prog \in {"final", "weekly"}
    /\ in_dir \in {None} \cup {Some(S) : S \in SUBSET FilePool}
    /\ in_args \in IF in_prog = "final" THEN 1..2 ELSE WindowPool
    /\ in_inputs = <<>>
    /\ in_written = FALSE
    /\ in_exit = None
    /\ ipc = "start"
    /\ OthersIdle("in")

\* the three programs that read a set of documents
InputsInit == Init \/ InInit

InputsNext ==
    \/ Next
    \/ FinalReport
    \/ WeeklySummary

SpecInputs == InputsInit /\ [][InputsNext]_vars

-----------------------------------------------------------------------------
(* Properties of the input sets *)

\* the run has ended with a status other than 0 and has written nothing
DailyStopped == rpc = "done" /\ exit_code \notin {None, Some(0)} /\ output = None
OtherStopped == ipc = "done" /\ in_exit \notin {None, Some(0)} /\ ~in_written

\* the directory holds no document of the day or of the window asked for
NoDocumentFor(prog) ==
    /\ in_prog = prog
    /\ in_dir # None
    /\ IF prog = "final"
       THEN ~\E f \in in_dir[1] : f.kind = "advice" /\ f.day = in_args
       ELSE With(IF in_args # None THEN in_args ELSE latest_n_days_range(in_dir[1]),
                 LAMBDA week : ~\E f \in in_dir[1] :
                     f.kind = "final" /\ week[1] <= f.day /\ f.day <= week[2])

\* C14: when the input directory is missing or holds no document of the
\* requested day or window, the run ends with a non-zero exit status and no
\* output file is written: the daily aggregator, the final report of a day
\* and the weekly summary.
C14_MissingInputsStopRun ==
    /\ (rpc # "start" /\ (~dir_exists \/ docs = {})) => DailyStopped
    /\ (ipc = "done" /\ in_prog # "none"
          /\ (in_dir = None \/ NoDocumentFor("final") \/ NoDocumentFor("weekly")))
          => OtherStopped

\* a missing directory stops the three programs
MissingDirStopsRun ==
    /\ (rpc # "start" /\ ~dir_exists) => DailyStopped
    /\ (ipc = "done" /\ in_prog # "none" /\ in_dir = None) => OtherStopped

\* a directory without a document of the day stops the daily aggregator and
\* the final report
NoDocumentStopsDaily ==
    /\ (rpc # "start" /\ docs = {}) => DailyStopped
    /\ (ipc = "done" /\ NoDocumentFor("final")) => OtherStopped

\* the weekly summary is written from no input and the run ends with status 0
WeeklyWrittenFromNothing ==
    /\ ipc = "done"
    /\ NoDocumentFor("weekly")
    /\ in_inputs = <<>>
    /\ in_written
    /\ in_exit = Some(0)

-----------------------------------------------------------------------------
(* Table extraction of the daily aggregator: a document is a sequence of    *)
(* lines, a line is a heading or other text ([row |-> FALSE, text]) or a    *)
(* line of a pipe table ([row |-> TRUE, cells]); the parsers return the     *)
(* keys of the entities they found, in the order of the rows                *)

\* the line as the string the code reads
LineText(ln) ==
    IF ~ln.row THEN ln.text
    ELSE LET RECURSIVE joined(_)
             joined(k) == IF k = 0 THEN <<"|">>
                          ELSE joined(k - 1) \o ln.cells[k] \o <<"|">>
         IN  joined(Len(ln.cells))

\* ln.strip().startswith('#')
IsHeadingLine(ln) == ~ln.row /\ ln.text # <<>> /\ Head(Strip(ln.text)) = "#"

\* parse_markdown_table: the cells of the lines that have more than one part
parse_markdown_table(table_lines) ==
    With(SelectSeq(table_lines, LAMBDA ln : ln.row /\ Len(ln.cells) > 1), LAMBDA kept :
         [i \in 1..Len(kept) |->
             [c \in 1..Len(kept[i].cells) |-> Strip(kept[i].cells[c])]])

\* the lines from k on that are lines of a table, as far as they go
RECURSIVE table_run(_, _)
table_run(lines, k) ==
    IF k > Len(lines) \/ ~lines[k].row THEN <<>>
    ELSE <<lines[k]>> \o table_run(lines, k + 1)

\* find_table_after_heading, lines 65-99: the table, None when there is none
find_table_after_heading(lines, heading_substring) ==
    With({i \in 1..Len(lines) : Contains(LineText(lines[i]), heading_substring)},
         LAMBDA hits :
    IF hits = {} THEN None
    ELSE With(SetMin(hits), LAMBDA start :
         With({k \in (start + 1)..Len(lines) :
                  /\ lines[k].row
                  /\ \A m \in (start + 1)..(k - 1) :
                        ~lines[m].row /\ ~(IsHeadingLine(lines[m]) /\ m > start + 1)},
              LAMBDA firsts :
         IF firsts = {} THEN None
         ELSE With(parse_markdown_table(table_run(lines, SetMin(firsts))), LAMBDA parsed :
                   IF parsed = <<>> THEN None ELSE Some(parsed)))))

\* re.fullmatch(r':?-{3,}:?', c.replace(' ', ''))
IsSeparatorCell(c) ==
    With(RemoveChars(c, {" "}), LAMBDA t :
    With(IF t # <<>> /\ Head(t) = ":" THEN Tail(t) ELSE t, LAMBDA u :
    With(IF u # <<>> /\ u[Len(u)] = ":" THEN SubSeq(u, 1, Len(u) - 1) ELSE u, LAMBDA v :
         Len(v) >= 3 /\ \A i \in 1..Len(v) : v[i] = "-")))

is_separator_row(row) == \A i \in 1..Len(row) : IsSeparatorCell(row[i])

\* body = table[1:], without a leading separator row
table_body(table) ==
    With(Tail(table), LAMBDA body :
         IF body # <<>> /\ is_separator_row(body[1]) THEN Tail(body) ELSE body)

\* find_col, lines 104-109: the index (from 1) of the first header that holds
\* all of includes and none of excludes, None when there is none
find_col(header, includes, excludes) ==
    With({i \in 1..Len(header) :
             /\ \A x \in excludes : ~Contains(Strip(header[i]), x)
             /\ \A x \in includes : Contains(Strip(header[i]), x)}, LAMBDA cols :
         IF cols = {} THEN None ELSE Some(SetMin(cols)))

\* x = find_col(...); if x is None: x = find_col(...); ...: the first of the
\* searches that finds a column
RECURSIVE first_col(_, _)
first_col(header, searches) ==
    IF searches = <<>> THEN None
    ELSE With(find_col(header, Head(searches), {}), LAMBDA c :
              IF c # None THEN c ELSE first_col(header, Tail(searches)))

\* the maximal runs of table lines of the text, each parsed, without the
\* empty ones
RECURSIVE all_tables(_, _)
all_tables(lines, k) ==
    IF k > Len(lines) THEN <<>>
    ELSE IF ~lines[k].row THEN all_tables(lines, k + 1)
    ELSE With(table_run(lines, k), LAMBDA run :
         With(parse_markdown_table(run), LAMBDA parsed :
              (IF parsed = <<>> THEN <<>> ELSE <<parsed>>)
              \o all_tables(lines, k + Len(run))))

\* header words
DaBanKuai == <<"da", "ban", "kuai">>
DaLei == <<"da", "lei">>
JianYi == <<"jian4", "yi4">>
JianYiPct == <<"jian4", "yi4", "%">>
JianYiJinE == <<"jian4", "yi4", "jin", "e2">>
JianYiTiaoZheng == <<"jian4", "yi4", "tiao", "zheng">>
TiaoZheng == <<"tiao", "zheng">>
TiaoZhengQian == <<"tiao", "zheng", "qian">>
TiaoZhengHou == <<"tiao", "zheng", "hou">>
ZhouDingTou == <<"zhou", "ding", "tou">>
DingTou == <<"ding", "tou">>
DangQian == <<"dang", "qian">>
DangQianMuBiao == <<"dang", "qian", "mu", "biao">>
DangQianZhanBi == <<"dang", "qian", "zhan", "bi">>
ZhanBi == <<"zhan", "bi">>
DangQianBiLi == <<"dang", "qian", "bi", "li">>
BiLi == <<"bi", "li">>
KouJing == <<"kou", "jing">>
BiaoDi == <<"biao", "di">>
JiJin == <<"ji", "jin">>
HeJi == <<"he", "ji4">>
ZongJi == <<"zong", "ji4">>

\* the headings the sections are found by
CatHeading == DaBanKuai \o BiLi \o TiaoZheng \o JianYi
ItemHeading == <<"ding", "tou", "ji4", "hua4", "zhu2", "xiang">> \o JianYi
ThemeHeading == <<"xin", "de", "ding", "tou", "fang", "xiang4">> \o JianYi

\* re.sub(r'[*_`\\s]+', '', key): the class holds the backslash and the
\* letter s
key_plain(key) == RemoveChars(key, {"*", "_", "BACKTICK", "BACKSLASH", "s"})

\* the keys of the rows for which Keep holds, Key gives the key
keys_of(body, Keep(_), Key(_)) ==
    With(SelectSeq(body, Keep), LAMBDA rows : [i \in 1..Len(rows) |-> Key(rows[i])])

Max3(a, b, c) == SetMax({a, b, c})

\* try_parse_kimi_summary, lines 204-259: the keys one table adds
try_parse_kimi_summary(t) ==
    IF Len(t) < 2 THEN <<>>
    ELSE
    With(first_col(t[1], << {DaLei}, {DaBanKuai} >>), LAMBDA key_col :
    With(find_col(t[1], {TiaoZhengQian, ZhouDingTou}, {}), LAMBDA before_col :
    With(first_col(t[1], << {TiaoZhengHou, ZhouDingTou}, {TiaoZhengHou} >>),
         LAMBDA after_col :
         IF key_col = None \/ before_col = None \/ after_col = None THEN <<>>
         ELSE keys_of(table_body(t),
                  LAMBDA row :
                     /\ Len(row) >= Max3(key_col[1], before_col[1], after_col[1])
                     /\ key_plain(Strip(row[key_col[1]])) \notin {<<>>, HeJi, ZongJi}
                     /\ parse_float_from_text(row[after_col[1]]) # None,
                  LAMBDA row : key_plain(Strip(row[key_col[1]]))))))

\* the keys of all the tables one after the other
keys_of_tables(ts, Try(_)) ==
    LET RECURSIVE upto(_)
        upto(k) == IF k = 0 THEN <<>> ELSE upto(k - 1) \o Try(ts[k])
    IN  upto(Len(ts))

\* lines 286-346 of parse_categories: the table of the second layout
parse_categories_second(header, body, key_col) ==
    With(IF find_col(header, {DaLei}, {}) # None THEN find_col(header, {DaLei}, {})
         ELSE key_col, LAMBDA key_col2 :
    With(find_col(header, {TiaoZhengHou}, {}), LAMBDA after_col2 :
         IF key_col2 = None \/ after_col2 = None THEN <<>>
         ELSE keys_of(body,
                  LAMBDA row :
                     /\ Len(row) >= Max3(key_col2[1], after_col2[1], 1)
                     /\ key_plain(Strip(row[key_col2[1]])) \notin {<<>>, HeJi, ZongJi}
                     /\ parse_float_from_text(row[after_col2[1]]) # None,
                  LAMBDA row : key_plain(Strip(row[key_col2[1]])))))

\* parse_categories, lines 181-378: the keys of the dict it returns
parse_categories_keys(lines) ==
    With(find_table_after_heading(lines, CatHeading), LAMBDA found :
    IF found = None \/ Len(found[1]) < 2
    THEN Distinct(keys_of_tables(all_tables(lines, 1), try_parse_kimi_summary))
    ELSE
    With(found[1][1], LAMBDA header :
    With(table_body(found[1]), LAMBDA body :
    With(find_col(header, {DaBanKuai}, {}), LAMBDA key_col :
    With(find_col(header, {JianYiPct}, {}), LAMBDA pct_col :
    With(find_col(header, {JianYi}, {JianYiPct}), LAMBDA dir_col :
         IF key_col = None \/ pct_col = None \/ dir_col = None
         THEN Distinct(parse_categories_second(header, body, key_col))
         ELSE Distinct(keys_of(body,
                  LAMBDA row : /\ Len(row) >= Max3(key_col[1], pct_col[1], dir_col[1])
                               /\ Strip(row[key_col[1]]) # <<>>,
                  LAMBDA row : Strip(row[key_col[1]])))))))))


\* upsert_item, lines 401-416, keeps a key that is not empty and normalizes
\* to a name
ItemKey(key) == key # <<>> /\ normalize_item_name(key) # <<>>

\* the words of a header that names a direction, line 515
HeaderDirections ==
    {<<"zeng", "chi">>, <<"jian", "chi">>, <<"bu", "bian">>, <<"wei", "chi">>,
     <<"zan", "ting">>, <<"ting", "zhi">>, <<"zeng", "pei">>, <<"jian", "pei">>}

\* lines 510-519: the first header that holds the word for advice and a
\* direction and none of the words of a value
explicit_direction_col(header) ==
    With({i \in 1..Len(header) :
             /\ Contains(Strip(header[i]), JianYi)
             /\ \E x \in HeaderDirections : Contains(Strip(header[i]), x)
             /\ ~\E x \in {JianYiPct, <<"jin", "e2">>, ZhouDingTou, DingTou, TiaoZheng} :
                   Contains(Strip(header[i]), x)}, LAMBDA cols :
         IF cols = {} THEN None ELSE Some(SetMin(cols)))

\* lines 479-510: the column of the value
scan_value_col(header) ==
    With(first_col(header, << {TiaoZhengHou, ZhouDingTou}, {TiaoZhengHou} >>),
         LAMBDA after_col :
    With(first_col(header,
             << {JianYiJinE}, {JianYi \o ZhouDingTou}, {JianYi \o DingTou \o <<"e2">>},
                {JianYi, DingTou}, {DingTou \o <<"jin", "e2">>}, {DingTou \o <<"e2">>},
                {JianYiTiaoZheng}, {JianYi, TiaoZheng} >>), LAMBDA value_col :
         IF value_col # None /\ after_col # None
               /\ Contains(Strip(header[value_col[1]]), JianYiTiaoZheng)
         THEN after_col ELSE value_col))

\* lines 523-527
direction_only_col(header, value_col) ==
    IF value_col # None THEN None
    ELSE With(find_col(header, {JianYi}, {JianYiPct, JianYiJinE, JianYiTiaoZheng}),
              LAMBDA c :
              IF c = None /\ find_col(header, {DangQian \o <<"zhuang", "tai">>}, {}) # None
              THEN find_col(header, {JianYi}, {}) ELSE c)

\* try_parse_table, lines 421-618: the keys one table hands to upsert_item
try_parse_table(t) ==
    IF Len(t) < 2 \/ table_body(t) = <<>> THEN <<>>
    ELSE
    With(first_col(t[1], << {BiaoDi}, {JiJin} >>), LAMBDA key_col :
    IF key_col = None THEN <<>>
    ELSE
    With(first_col(t[1], << {DangQianZhanBi}, {DangQian, ZhanBi}, {DangQianBiLi} >>),
         LAMBDA current_pct_col :
    With(first_col(t[1], << {JianYiTiaoZheng}, {JianYi, TiaoZheng} >>), LAMBDA adjust_col :
    IF current_pct_col # None /\ adjust_col # None
    THEN keys_of(table_body(t),
             LAMBDA row :
                /\ Len(row) >= Max3(key_col[1], current_pct_col[1], adjust_col[1])
                /\ parse_float_from_text(row[current_pct_col[1]]) # None
                /\ parse_float_from_text(row[adjust_col[1]]) # None,
             LAMBDA row : Strip(row[key_col[1]]))
    ELSE
    With(scan_value_col(t[1]), LAMBDA value_col :
    With(explicit_direction_col(t[1]), LAMBDA dir_col :
    With(direction_only_col(t[1], value_col), LAMBDA only_col :
    IF value_col = None /\ only_col = None THEN <<>>
    ELSE keys_of(table_body(t),
             LAMBDA row :
                /\ Len(row) >= key_col[1]
                /\ IF only_col # None
                   THEN Len(row) >= only_col[1] /\ Strip(row[only_col[1]]) # <<>>
                   ELSE /\ Len(row) >= value_col[1]
                        /\ \/ parse_float_from_text(row[value_col[1]]) # None
                           \/ /\ dir_col # None
                              /\ Len(row) >= dir_col[1]
                              /\ Strip(row[dir_col[1]]) # <<>>,
             LAMBDA row : Strip(row[key_col[1]]))))))))

\* scan_tables_all, lines 381-637
scan_tables_all(lines) ==
    Distinct(SelectSeq(keys_of_tables(all_tables(lines, 1), try_parse_table), ItemKey))

\* parse_items, lines 380-708: the keys of the dict it returns
parse_items_keys(lines) ==
    With(find_table_after_heading(lines, ItemHeading), LAMBDA found :
    IF found = None \/ Len(found[1]) < 2 THEN scan_tables_all(lines)
    ELSE
    With(found[1][1], LAMBDA header :
    With(find_col(header, {BiaoDi}, {}), LAMBDA key_col :
    With(find_col(header, {JianYi}, {JianYiPct, JianYiJinE}), LAMBDA dir_col :
    With(first_col(header, << {JianYiPct}, {JianYiJinE} >>), LAMBDA value_col :
         IF key_col = None \/ dir_col = None \/ value_col = None
         THEN scan_tables_all(lines)
         ELSE Distinct(keys_of(table_body(found[1]),
                  LAMBDA row : /\ Len(row) >= Max3(key_col[1], value_col[1], dir_col[1])
                               /\ ItemKey(Strip(row[key_col[1]])),
                  LAMBDA row : Strip(row[key_col[1]]))))))))

\* the header words of the topic column, in the order they are tried
ThemeKeyHeaders ==
    << {<<"zhu", "ti", "/", "fang", "xiang4">>}, {<<"hang", "ye", "/", "zhu", "ti">>},
       {<<"hang", "ye">>}, {<<"zhu", "ti">>}, {<<"fang", "xiang4">>} >>

\* parse_themes, lines 947-1018: the topics of the entries it returns
parse_themes_keys(lines) ==
    With(find_table_after_heading(lines, ThemeHeading), LAMBDA found :
    IF found = None THEN <<>>
    ELSE
    With(found[1][1], LAMBDA header :
    With(first_col(header, ThemeKeyHeaders), LAMBDA topic_col :
    With(find_col(header, {BiLi}, {}), LAMBDA pct_col :
    With(find_col(header, {KouJing}, {}), LAMBDA caliber_col :
         IF topic_col = None \/ pct_col = None \/ caliber_col = None THEN <<>>
         ELSE keys_of(table_body(found[1]),
                  LAMBDA row : /\ Len(row) >= Max3(topic_col[1], pct_col[1], caliber_col[1])
                               /\ Strip(row[topic_col[1]]) # <<>>
                               /\ ~is_none_topic(Strip(row[topic_col[1]])),
                  LAMBDA row : Strip(row[topic_col[1]])))))))


-----------------------------------------------------------------------------
(* The three sections of one source document, as main reads them (lines     *)
(* 1503-1525): parse_categories, then parse_items, then parse_themes        *)

\* the longest document, in lines
MaxLines == 4

HeadingLine(words) == [row |-> FALSE, text |-> <<"#", "#", " ">> \o words]
TextLine(words) == [row |-> FALSE, text |-> words]
TableLine(cells) == [row |-> TRUE, cells |-> cells]

\* the cells of the row under a header, plain and with the colons of an
\* alignment
Dashes == <<"-", "-", "-">>
ColonDashes == <<":", "-", "-", "-", ":">>
SeparatorLine(c) == TableLine(<<c, c, c>>)

ZhaiQuan == <<"zhai", "quan4">>
ChuangXinYao == <<"chuang", "xin", "yao">>
JiQiRen == <<"ji1", "qi4", "ren">>
Pct20 == <<"2", "0", "%">>

\* the pieces a document is written from: the headings of the three
\* sections, another heading, a line of text, tables of the layouts the
\* parsers know and of ones they do not, without and with the separator row
\* under the header, and a separator row alone
SectionBlocks ==
    { <<HeadingLine(CatHeading)>>,
      <<HeadingLine(ItemHeading)>>,
      <<HeadingLine(ThemeHeading)>>,
      <<HeadingLine(<<"feng", "xian">>)>>,
      <<TextLine(<<"shuo", "ming">>)>>,
      <<TableLine(<<DaBanKuai, JianYiPct, JianYi>>),
        TableLine(<<ZhaiQuan, Pct20, <<"zeng", "pei">>>>)>>,
      <<TableLine(<<DaBanKuai, JianYiPct>>),
        TableLine(<<ZhaiQuan, Pct20>>)>>,
      <<TableLine(<<DaLei, DangQianMuBiao, TiaoZhengHou>>),
        TableLine(<<ZhaiQuan, Pct20, Pct20>>)>>,
      <<TableLine(<<DaLei, TiaoZhengQian \o ZhouDingTou, TiaoZhengHou \o ZhouDingTou>>),
        TableLine(<<ZhaiQuan, <<"1", "0", "0">>, <<"2", "0", "0">>>>)>>,
      <<TableLine(<<BiaoDi, JianYiPct, JianYi>>),
        TableLine(<<ChuangXinYao, Pct20, <<"zeng", "chi">>>>)>>,
      <<TableLine(<<BiaoDi, JianYiPct>>),
        TableLine(<<ChuangXinYao, Pct20>>)>>,
      <<TableLine(<<BiaoDi, JianYiJinE>>),
        TableLine(<<ChuangXinYao, <<"1", "0", "0">>>>)>>,
      <<TableLine(<<BiaoDi, DangQianZhanBi, JianYiTiaoZheng>>),
        TableLine(<<ChuangXinYao, Pct20, <<"+", "1", "%">>>>)>>,
      <<TableLine(<<JiJin, JianYi>>),
        TableLine(<<ChuangXinYao, <<"zeng", "chi">>>>)>>,
      <<TableLine(<<<<"zhu", "ti", "/", "fang", "xiang4">>, JianYi \o BiLi, KouJing>>),
        TableLine(<<JiQiRen, Pct20, <<"chang", "nei">>>>)>>,
      <<TableLine(<<<<"zhu", "ti", "/", "fang", "xiang4">>, JianYi \o BiLi>>),
        TableLine(<<JiQiRen, Pct20>>)>>,
      <<SeparatorLine(Dashes)>>,
      <<SeparatorLine(ColonDashes)>>,
      <<TableLine(<<DaBanKuai, JianYiPct, JianYi>>),
        SeparatorLine(Dashes),
        TableLine(<<ZhaiQuan, Pct20, <<"zeng", "pei">>>>)>>,
      <<TableLine(<<BiaoDi, JianYiPct, JianYi>>),
        SeparatorLine(ColonDashes),
        TableLine(<<ChuangXinYao, Pct20, <<"zeng", "chi">>>>)>>,
      <<TableLine(<<<<"zhu", "ti", "/", "fang", "xiang4">>, JianYi \o BiLi, KouJing>>),
        SeparatorLine(Dashes),
        TableLine(<<JiQiRen, Pct20, <<"chang", "nei">>>>)>> }

\* the document grows by one piece
AddBlock(b) ==
    /\ xpc = "write"
    /\ Len(sec_lines) + Len(b) <= MaxLines
    /\ sec_lines' = sec_lines \o b
    /\ UNCHANGED <<sec_out, xpc>>
    /\ UNCHANGED notSec

\* cat_order, cat_map = parse_categories(text, raw_model)
ParseCategories ==
    /\ xpc = "write"
    /\ sec_lines # <<>>
    /\ sec_out' = <<parse_categories_keys(sec_lines)>>
    /\ xpc' = "items"
    /\ UNCHANGED sec_lines
    /\ UNCHANGED notSec

\* item_order, item_map = parse_items(text, raw_model)
ParseItems ==
    /\ xpc = "items"
    /\ sec_out' = Append(sec_out, parse_items_keys(sec_lines))
    /\ xpc' = "themes"
    /\ UNCHANGED sec_lines
    /\ UNCHANGED notSec

\* themes, explicit_no_new = parse_themes(text, raw_model)
ParseThemes ==
    /\ xpc = "themes"
    /\ sec_out' = Append(sec_out, parse_themes_keys(sec_lines))
    /\ xpc' = "done"
    /\ UNCHANGED sec_lines
    /\ UNCHANGED notSec

SecInit == SecIdle /\ OthersIdle("sec")

SecNext ==
    \/ \E b \in SectionBlocks : AddBlock(b)
    \/ ParseCategories
    \/ ParseItems
    \/ ParseThemes

SpecSections == SecInit /\ [][SecNext]_vars

\* a line of the document holds the heading
HeadingFound(heading) ==
    \E i \in 1..Len(sec_lines) : Contains(LineText(sec_lines[i]), heading)

\* a table of a header and at least one more row follows the heading
TableFollows(heading) ==
    With(find_table_after_heading(sec_lines, heading), LAMBDA found :
         found # None /\ Len(found[1]) >= 2)

\* the header of the table after the heading
HeaderAfter(heading) == find_table_after_heading(sec_lines, heading)[1][1]

\* the columns each section asks of its table (lines 269-273, 644-655,
\* 975-984)
CategoryColumnsResolved ==
    With(HeaderAfter(CatHeading), LAMBDA header :
         /\ find_col(header, {DaBanKuai}, {}) # None
         /\ find_col(header, {JianYiPct}, {}) # None
         /\ find_col(header, {JianYi}, {JianYiPct}) # None)

ItemColumnsResolved ==
    With(HeaderAfter(ItemHeading), LAMBDA header :
         /\ find_col(header, {BiaoDi}, {}) # None
         /\ first_col(header, << {JianYiPct}, {JianYiJinE} >>) # None
         /\ find_col(header, {JianYi}, {JianYiPct, JianYiJinE}) # None)

ThemeColumnsResolved ==
    With(HeaderAfter(ThemeHeading), LAMBDA header :
         /\ first_col(header, ThemeKeyHeaders) # None
         /\ find_col(header, {BiLi}, {}) # None
         /\ find_col(header, {KouJing}, {}) # None)

\* the heading is not found, or no table follows it, or a column is not
\* resolved
CategoryMiss ==
    ~HeadingFound(CatHeading) \/ ~TableFollows(CatHeading) \/ ~CategoryColumnsResolved
ItemMiss ==
    ~HeadingFound(ItemHeading) \/ ~TableFollows(ItemHeading) \/ ~ItemColumnsResolved
ThemeMiss ==
    ~HeadingFound(ThemeHeading) \/ ~TableFollows(ThemeHeading) \/ ~ThemeColumnsResolved

\* every section before the position of the run has returned its entities
SectionsParsedInTurn ==
    Len(sec_out) = (CASE xpc = "write" -> 0 [] xpc = "items" -> 1
                      [] xpc = "themes" -> 2 [] OTHER -> 3)

\* C13: for any source document, when a section's heading is not found, or
\* no table follows it, or a required column cannot be resolved in the
\* table's header, parsing that section (categories, items, themes) returns
\* zero entities for that document and raises no error; the run continues
\* with the other sections
C13_StructuralMissYieldsNothing ==
    /\ SectionsParsedInTurn
    /\ Len(sec_out) >= 1 /\ CategoryMiss => sec_out[1] = <<>>
    /\ Len(sec_out) >= 2 /\ ItemMiss => sec_out[2] = <<>>
    /\ Len(sec_out) >= 3 /\ ThemeMiss => sec_out[3] = <<>>

\* what holds of C13: the themes of a document with a miss are none, and
\* every section is parsed whatever the ones before it found
ThemeMissYieldsNothing ==
    /\ SectionsParsedInTurn
    /\ Len(sec_out) >= 3 /\ ThemeMiss => sec_out[3] = <<>>

\* the items section has no heading and the scan of all the tables of the
\* document returns an item
ItemsFoundWithoutHeading ==
    /\ Len(sec_out) >= 2
    /\ ~HeadingFound(ItemHeading)
    /\ sec_out[2] # <<>>

\* the categories table lacks a column of the main layout and the second
\* layout returns a category
CategoriesFoundWithoutColumn ==
    /\ Len(sec_out) >= 1
    /\ HeadingFound(CatHeading) /\ TableFollows(CatHeading)
    /\ ~CategoryColumnsResolved
    /\ sec_out[1] # <<>>

\* a miss of the items section that no other table of the document makes up
\* for returns no item
ItemMissWithoutOtherLayout ==
    Len(sec_out) >= 2 /\ ItemMiss /\ scan_tables_all(sec_lines) = <<>>
        => sec_out[2] = <<>>


-----------------------------------------------------------------------------
(* The halves of the window (lines 587, 603-604, 651-652) *)

\* the days of main_dirs[:k_half] and of main_dirs[-k_half:], of n days
early_days(n) == 1..k_half_of(n)
late_days(n) == (n - k_half_of(n) + 1)..n

\* the score of the days a..b of the row, as the code computes a score
ScoreOfDays(a, b) ==
    signal_score_from_main_dirs(SubSeq(sg_out.main_dirs, a, b),
                                LabelInc(sg_cat), LabelDec(sg_cat))

\* C21: the early half is the first floor(n/2) days and the late half the
\* remaining ceil(n/2) days of the n days that have a daily report: the
\* halves are disjoint, together they cover all n days, and the early and the
\* late score are the scores of these days.
C21_HalvesCoverWindow ==
    SigDone =>
        LET n == Len(sg_days)
        IN  /\ early_days(n) = 1..(n \div 2)
            /\ late_days(n) = (n \div 2 + 1)..n
            /\ early_days(n) \cap late_days(n) = {}
            /\ early_days(n) \cup late_days(n) = 1..n
            /\ sg_out.early_score = ScoreOfDays(1, n \div 2)
            /\ sg_out.late_score = ScoreOfDays(n \div 2 + 1, n)

\* what holds of C21: both halves have max(1, floor(n/2)) days, the first and
\* the last ones; they are the halves of the claim when n is even
HalvesOfEqualLength ==
    SigDone =>
        LET n == Len(sg_days)
            k == IF n = 0 THEN 0 ELSE IF n = 1 THEN 1 ELSE n \div 2
        IN  /\ early_days(n) = 1..k
            /\ late_days(n) = (n - k + 1)..n
            /\ n > 0 => sg_out.early_score = ScoreOfDays(1, k)
            /\ n > 0 => sg_out.late_score = ScoreOfDays(n - k + 1, n)
            /\ n % 2 = 0 => /\ early_days(n) \cap late_days(n) = {}
                            /\ early_days(n) \cup late_days(n) = 1..n

\* of three days the second is won by increase and is in neither half: both
\* halves have no score
MiddleDayLeftOut ==
    /\ SigDone
    /\ Len(sg_days) = 3
    /\ sg_out.main_dirs[2] = LabelInc(sg_cat)
    /\ 2 \notin early_days(3) \cup late_days(3)
    /\ sg_out.week_score = <<1, 1>>
    /\ sg_out.early_score = None
    /\ sg_out.late_score = None

\* the one day of a window of one day is in both halves
OnlyDayInBothHalves ==
    /\ SigDone
    /\ Len(sg_days) = 1
    /\ early_days(1) \cap late_days(1) = {1}
    /\ sg_out.early_score = <<1, 1>>
    /\ sg_out.late_score = <<1, 1>>


-----------------------------------------------------------------------------
(* The trend of a row from the scores of its halves: signal_trend and       *)
(* signal_trend_metric applied to every pair of scores that halves of up to *)
(* MaxHalfDays days can have (a window given by --week-start and --week-end *)
(* holds as many daily reports as there are days in it)                     *)

\* the most days with a usable vote in one half
MaxHalfDays == 5

\* (days won by increase - days won by decrease) over the usable days
HalfScores ==
    {None} \cup {s \in ((-MaxHalfDays)..MaxHalfDays) \X (1..MaxHalfDays) :
                    Abs(s[1]) <= s[2]}

\* lines 605 and 625 (653 and 673 for an item): s_trend and "trend_value"
Trend ==
    /\ tpc = "input"
    /\ tr_out' = [trend  |-> signal_trend(tr_early, tr_late, tr_cat),
                  metric |-> signal_trend_metric(tr_early, tr_late, tr_cat)]
    /\ tpc' = "done"
    /\ UNCHANGED <<tr_cat, tr_early, tr_late>>
    /\ UNCHANGED notTr

TrInit ==
    /\ tr_cat \in BOOLEAN
    /\ tr_early \in HalfScores
    /\ tr_late \in HalfScores
    /\ tr_out = None
    /\ tpc = "input"
    /\ OthersIdle("tr")

TrNext == Trend

SpecTrend == TrInit /\ [][TrNext]_vars

TrendDone == tpc = "done"

\* the label reads 'reversal: ...'
IsReversalLabel(trend) == Len(trend) >= 2 /\ SubSeq(trend, 1, 2) = <<"fan", "zhuan">>

\* late strength - early strength, times den, as integers
StrengthDelta(early, late) == Abs(late[1]) * early[2] - Abs(early[1]) * late[2]

\* the metric is the double of the value num / den, to the last place
MetricIs(metric, num, den) == metric # None /\ metric[1] * den = num * metric[2]

\* C22: without a reversal and with a score in both halves, the trend is
\* 'strengthening' iff late strength - early strength >= 0.20, 'weakening'
\* iff it is <= -0.20, 'stable' otherwise; the ranking magnitude is 1.0 for a
\* reversal and |late strength - early strength| otherwise; a half without a
\* score gives the dash and no magnitude.
C22_TrendThresholds ==
    TrendDone =>
        IF tr_early = None \/ tr_late = None
        THEN tr_out.trend = Dash /\ tr_out.metric = None
        ELSE LET delta == StrengthDelta(tr_early, tr_late)
                 den   == tr_early[2] * tr_late[2]
             IN  IF IsReversalLabel(tr_out.trend)
                 THEN MetricIs(tr_out.metric, 1, 1)
                 ELSE /\ tr_out.trend = <<"bian", "qiang">> <=> 5 * delta >= den
                      /\ tr_out.trend = <<"bian", "ruo">> <=> 5 * delta <= -den
                      /\ tr_out.trend = <<"wen", "ding">>
                            <=> (5 * delta < den /\ 5 * delta > -den)
                      /\ MetricIs(tr_out.metric, Abs(delta), den)

\* the two pairs of strengths whose difference is 1/5 and whose doubles
\* differ by 0.19999999999999996
FifthLostInDoubles(x, y) ==
    \/ SameValue(Strength(x), <<1, 1>>) /\ SameValue(Strength(y), <<4, 5>>)
    \/ SameValue(Strength(x), <<3, 5>>) /\ SameValue(Strength(y), <<2, 5>>)

\* what holds of C22: the thresholds are those of the claim but for the pairs
\* of strengths 1 and 4/5, 3/5 and 2/5, which read 'stable'; the dash and the
\* magnitudes are as claimed
TrendThresholdsButLostFifth ==
    TrendDone =>
        IF tr_early = None \/ tr_late = None
        THEN tr_out.trend = Dash /\ tr_out.metric = None
        ELSE LET delta == StrengthDelta(tr_early, tr_late)
                 den   == tr_early[2] * tr_late[2]
                 lost  == \/ FifthLostInDoubles(tr_early, tr_late)
                          \/ FifthLostInDoubles(tr_late, tr_early)
             IN  IF IsReversalLabel(tr_out.trend)
                 THEN MetricIs(tr_out.metric, 1, 1)
                 ELSE /\ tr_out.trend = <<"bian", "qiang">>
                            <=> (5 * delta >= den /\ ~lost)
                      /\ tr_out.trend = <<"bian", "ruo">>
                            <=> (5 * delta <= -den /\ ~lost)
                      /\ tr_out.trend = <<"wen", "ding">>
                            <=> ((5 * delta < den /\ 5 * delta > -den) \/ lost)
                      /\ MetricIs(tr_out.metric, Abs(delta), den)

\* five days of increase, then four of increase and one unchanged: the
\* strength falls by 1/5 and the trend reads 'stable'
FallOfAFifthReadsStable ==
    /\ TrendDone
    /\ tr_early = <<5, 5>>
    /\ tr_late = <<4, 5>>
    /\ tr_out.trend = <<"wen", "ding">>


-----------------------------------------------------------------------------
(* direction_to_stat of the three programs, applied to the phrases that can *)
(* be written from the words the implementations look for                   *)

\* the most words of a phrase
MaxWords == 3

XiaoFu == <<"xiao", "fu">>
DaFu == <<"da", "fu">>
BaoChi == <<"bao", "chi">>
ZanTing == <<"zan", "ting">>
TingZhi == <<"ting", "zhi">>
QingCang == <<"qing", "cang">>

\* the words of the keep class (line 166)
KeepWords == {WeiChi, BuBian, BaoChi}

\* what a phrase is written from: the words the implementations look for, a
\* word none of them knows, a blank
PhraseWords ==
    KeepWords \cup {XiaoFu, DaFu, ZengPei, JianPei, ZengChi, JianChi, <<"zeng">>,
                    <<"jian">>, ZanTing, TingZhi, QingCang, <<"guan", "wang">>, <<" ">>}

\* generate_daily_final_report.py, lines 155-182
direction_to_stat_final(direction, is_category) ==
    IF direction = None THEN NoStat
    ELSE With(Strip(direction), LAMBDA d :
         IF Contains(d, WeiChi) \/ Contains(d, BuBian) \/ Contains(d, BaoChi)
         THEN "bubian"
         ELSE IF is_category /\ Contains(d, XiaoFu \o ZengPei) THEN "zeng"
         ELSE IF is_category /\ Contains(d, XiaoFu \o JianPei) THEN "jian"
         ELSE IF is_category /\ Contains(d, ZengPei) THEN "zeng"
         ELSE IF is_category /\ Contains(d, JianPei) THEN "jian"
         ELSE IF ~is_category /\ Contains(d, ZengChi) THEN "zeng"
         ELSE IF ~is_category /\ Contains(d, JianChi) THEN "jian"
         ELSE IF Contains(d, <<"zeng">>) THEN "zeng"
         ELSE IF Contains(d, <<"jian">>) \/ Contains(d, ZanTing) \/ Contains(d, TingZhi)
         THEN "jian"
         ELSE "bubian")

\* scripts/generate_weekly_summary.py, lines 129-161
direction_to_stat_weekly(direction, is_category) ==
    IF direction = None THEN NoStat
    ELSE With(Strip(direction), LAMBDA d :
         IF ContainsAny(d, KeepWords) THEN "bubian"
         ELSE IF is_category /\ Contains(d, XiaoFu \o ZengPei) THEN "zeng"
         ELSE IF is_category /\ Contains(d, DaFu \o ZengPei) THEN "zeng"
         ELSE IF is_category /\ Contains(d, XiaoFu \o JianPei) THEN "jian"
         ELSE IF is_category /\ Contains(d, DaFu \o JianPei) THEN "jian"
         ELSE IF is_category /\ Contains(d, ZengPei) THEN "zeng"
         ELSE IF is_category /\ Contains(d, JianPei) THEN "jian"
         ELSE IF ~is_category /\ Contains(d, ZanTing) THEN "jian"
         ELSE IF ~is_category /\ Contains(d, QingCang) THEN "jian"
         ELSE IF ~is_category /\ Contains(d, ZengChi) THEN "zeng"
         ELSE IF ~is_category /\ Contains(d, JianChi) THEN "jian"
         ELSE IF Contains(d, <<"zeng">>) THEN "zeng"
         ELSE IF Contains(d, <<"jian">>) THEN "jian"
         ELSE "bubian")

\* the text of a phrase written word by word
RECURSIVE PhraseText(_)
PhraseText(ws) == IF ws = <<>> THEN <<>> ELSE Head(ws) \o PhraseText(Tail(ws))

\* the phrase of the cell grows by a word
AddWord(w) ==
    /\ dpc = "input"
    /\ Len(dr_phrase) < MaxWords
    /\ dr_phrase' = Append(dr_phrase, w)
    /\ UNCHANGED <<dr_cat, dr_stat, dpc>>
    /\ UNCHANGED notDir

\* direction_stat=direction_to_stat(direction, is_category=...) of the daily
\* aggregator (line 375), of the final report and of the weekly summary
\* (line 601)
Classify ==
    /\ dpc = "input"
    /\ dr_stat' = With(PhraseText(dr_phrase), LAMBDA direction :
                       [daily  |-> direction_to_stat(direction, dr_cat),
                        final  |-> direction_to_stat_final(direction, dr_cat),
                        weekly |-> direction_to_stat_weekly(direction, dr_cat)])
    /\ dpc' = "done"
    /\ UNCHANGED <<dr_cat, dr_phrase>>
    /\ UNCHANGED notDir

DirInit ==
    /\ dr_cat \in BOOLEAN
    /\ dr_phrase = <<>>
    /\ dr_stat = None
    /\ dpc = "input"
    /\ OthersIdle("dir")

DirNext ==
    \/ \E w \in PhraseWords : AddWord(w)
    \/ Classify

SpecDirection == DirInit /\ [][DirNext]_vars


-----------------------------------------------------------------------------
(* Properties of the direction classes *)

DirDone == dpc = "done"

\* the phrase, stripped, holds the word
Has(w) == Contains(Strip(PhraseText(dr_phrase)), w)

HasKeep == \E w \in KeepWords : Has(w)

\* the generic fallback: the character of increase, then the character of
\* decrease and the words for a pause and a stop
GenericClass ==
    IF Has(<<"zeng">>) THEN "zeng"
    ELSE IF Has(<<"jian">>) \/ Has(ZanTing) \/ Has(TingZhi) THEN "jian"
    ELSE "bubian"

\* the class of the precedence: no phrase, keep, the words of the context,
\* the generic fallback
PrecedenceClass(ctx_inc, ctx_dec) ==
    IF PhraseText(dr_phrase) = <<>> THEN NoStat
    ELSE IF HasKeep THEN "bubian"
    ELSE IF ctx_inc THEN "zeng"
    ELSE IF ctx_dec THEN "jian"
    ELSE GenericClass

\* C24: an absent or empty phrase gives no direction; a phrase with a keep
\* word gives 'unchanged' whatever else it holds; otherwise the words of the
\* context decide (allocation words for categories, position words for
\* items), increase tested before decrease; otherwise the generic fallback
\* decides; a phrase matching nothing gives 'unchanged'.
C24_DirectionPrecedence ==
    DirDone =>
        LET class == PrecedenceClass(IF dr_cat THEN Has(ZengPei) ELSE Has(ZengChi),
                                     IF dr_cat THEN Has(JianPei) ELSE Has(JianChi))
        IN  dr_stat.daily = class /\ dr_stat.final = class

\* C24, amended: as C24, but the words of the category context are tested in
\* the order small increase, small decrease, increase, decrease of
\* allocation: a phrase with the small decrease and without the small
\* increase gives 'decrease' even if it holds the word of increase.
C24_QualifiedWordsFirst ==
    DirDone =>
        LET class ==
                PrecedenceClass(
                    IF dr_cat
                    THEN \/ Has(XiaoFu \o ZengPei)
                         \/ Has(ZengPei) /\ ~Has(XiaoFu \o JianPei)
                    ELSE Has(ZengChi),
                    IF dr_cat THEN Has(JianPei) ELSE Has(JianChi))
        IN  dr_stat.daily = class /\ dr_stat.final = class

\* a category phrase with the small decrease and then the increase of
\* allocation is classified as decrease
C24_Witness ==
    /\ DirDone
    /\ dr_cat
    /\ dr_phrase = <<XiaoFu, JianPei, ZengPei>>
    /\ dr_stat.daily = "jian"
    /\ dr_stat.final = "jian"

\* C28: the weekly aggregator classifies every phrase, in both contexts, as
\* the daily aggregator does, phrases with the words for a pause, a stop and
\* a clearance included.
C28_WeeklyClassifiesAsDaily ==
    DirDone => dr_stat.weekly = dr_stat.daily

\* what holds of C28: the classes are the same for the phrases without the
\* words for a pause, a stop, a clearance and a large change
WeeklyAsDailyOnPlainPhrases ==
    (DirDone /\ ~Has(ZanTing) /\ ~Has(TingZhi) /\ ~Has(QingCang) /\ ~Has(DaFu))
        => dr_stat.weekly = dr_stat.daily

\* the item phrase 'clearance' is unchanged for the daily aggregator and a
\* decrease for the weekly one; the phrase 'stop' the other way round
ClearanceAndStopDiffer ==
    /\ DirDone
    /\ ~dr_cat
    /\ \/ dr_phrase = <<QingCang>> /\ dr_stat.daily = "bubian" /\ dr_stat.weekly = "jian"
       \/ dr_phrase = <<TingZhi>> /\ dr_stat.daily = "jian" /\ dr_stat.weekly = "bubian"


-----------------------------------------------------------------------------
(* Separator rows of the tables of a document *)

\* the line is a row of only dash/colon separator cells
IsSeparatorLine(ln) == ln.row /\ is_separator_row(ln.cells)

\* the keys of the entities returned so far for the document
SectionKeys == UNION {Range(sec_out[k]) : k \in 1..Len(sec_out)}

\* C25: a table row made only of dash/colon separator cells never becomes an
\* entity, whatever its position among the lines of the table (directly
\* under the header or further down): no category, item or theme entry has
\* the cell of such a row as its key.
C25_SeparatorRowNeverEntity ==
    \A key \in SectionKeys : ~IsSeparatorCell(key)

\* every separator row of the document is the second line of its table
SeparatorsUnderHeaders ==
    \A i \in 1..Len(sec_lines) :
        IsSeparatorLine(sec_lines[i]) =>
            /\ i > 1
            /\ sec_lines[i - 1].row
            /\ (i = 2 \/ ~sec_lines[i - 2].row)

\* what holds of C25: the separator row directly under the header of a table
\* is discarded
SeparatorUnderHeaderDiscarded ==
    SeparatorsUnderHeaders => \A key \in SectionKeys : ~IsSeparatorCell(key)

\* a categories table whose last line is a separator row: the row is
\* returned as a category
SeparatorRowIsCategory ==
    /\ Len(sec_out) >= 1
    /\ Len(sec_lines) = 4
    /\ IsSeparatorLine(sec_lines[4])
    /\ sec_out[1] = <<ZhaiQuan, Dashes>>

\* a separator row of plain dashes further down is no item: its key
\* normalizes to nothing
PlainDashesNeverItem ==
    Len(sec_out) >= 2 => Dashes \notin Range(sec_out[2])


-----------------------------------------------------------------------------
(* The tags of a theme group of the weekly theme table (lines 583-584 and   *)
(* 781-792).  The window is the days 1..WindowDays; a day is written as its *)
(* number, the code compares the ISO texts of the dates                     *)

TagNew == <<"ben", "zhou", "xin", "zeng">>
TagPersisted == <<"chi", "xu">>
TagDisappeared == <<"xiao", "shi">>

\* the tags if the days of appearance were compared with the first and the
\* last day of the window
theme_tags_of_window(input_dates, appear_days) ==
    (IF input_dates # <<>> /\ appear_days[1] # 1 THEN <<TagNew>> ELSE <<>>)
    \o (IF input_dates # <<>> /\ appear_days[Len(appear_days)] = WindowDays
        THEN <<TagPersisted>> ELSE <<>>)
    \o (IF input_dates # <<>> /\ appear_days[Len(appear_days)] # WindowDays
        THEN <<TagDisappeared>> ELSE <<>>)

\* lines 781-792: report_day_first and report_day_last are the first and the
\* last of input_dates (lines 583-584)
theme_tags(input_dates, appear_days) ==
    (IF input_dates # <<>> /\ appear_days[1] # input_dates[1]
     THEN <<TagNew>> ELSE <<>>)
    \o (IF input_dates # <<>> /\ appear_days[Len(appear_days)] = input_dates[Len(input_dates)]
        THEN <<TagPersisted>> ELSE <<>>)
    \o (IF input_dates # <<>> /\ appear_days[Len(appear_days)] # input_dates[Len(input_dates)]
        THEN <<TagDisappeared>> ELSE <<>>)

\* the day has no daily report
NoReport ==
    /\ upc = "read"
    /\ tg_day <= WindowDays
    /\ tg_day' = tg_day + 1
    /\ UNCHANGED <<tg_inputs, tg_appear, tg_tags, upc>>
    /\ UNCHANGED notTag

\* the day has a daily report; with_theme: its theme table has a cell of the
\* group
ReadReport(with_theme) ==
    /\ upc = "read"
    /\ tg_day <= WindowDays
    /\ tg_inputs' = Append(tg_inputs, tg_day)
    /\ tg_appear' = IF with_theme THEN Append(tg_appear, tg_day) ELSE tg_appear
    /\ tg_day' = tg_day + 1
    /\ UNCHANGED <<tg_tags, upc>>
    /\ UNCHANGED notTag

\* the row of a group that has a cell
TagGroup ==
    /\ upc = "read"
    /\ tg_day > WindowDays
    /\ tg_appear # <<>>
    /\ tg_tags' = theme_tags(tg_inputs, tg_appear)
    /\ upc' = "done"
    /\ UNCHANGED <<tg_day, tg_inputs, tg_appear>>
    /\ UNCHANGED notTag

TagInit == TagIdle /\ OthersIdle("tag")

TagNext ==
    \/ NoReport
    \/ \E with_theme \in BOOLEAN : ReadReport(with_theme)
    \/ TagGroup

SpecTags == TagInit /\ [][TagNext]_vars

Tagged == upc = "done"

HasTag(t) == \E i \in 1..Len(tg_tags) : tg_tags[i] = t

\* the tags are those of the first and the last appearance compared with the
\* days first and last
TagsAgainst(first, last) ==
    /\ HasTag(TagNew) <=> tg_appear[1] > first
    /\ HasTag(TagPersisted) <=> tg_appear[Len(tg_appear)] = last
    /\ HasTag(TagDisappeared) <=> tg_appear[Len(tg_appear)] < last
    /\ HasTag(TagPersisted) # HasTag(TagDisappeared)

\* C26: a theme group is tagged 'newly appeared' iff its first appearance is
\* after the first day of the window, 'persisted to week end' iff its last
\* appearance is the last day of the window, 'disappeared before week end'
\* iff its last appearance is before it; every group carries exactly one of
\* 'persisted' and 'disappeared'.
C26_TagsAgainstWindow ==
    Tagged => TagsAgainst(1, WindowDays)

\* C26, amended: the first and the last appearance are compared with the
\* first and the last day of the window that has a daily report.
C26_TagsAgainstReportDays ==
    Tagged => TagsAgainst(tg_inputs[1], tg_inputs[Len(tg_inputs)])

\* the first and the last day of the window have no daily report and the
\* group appears in the first and in the last report: it is not new and it
\* persisted
C26_Witness ==
    /\ Tagged
    /\ tg_inputs[1] > 1
    /\ tg_inputs[Len(tg_inputs)] < WindowDays
    /\ Len(tg_inputs) >= 3
    /\ tg_appear[1] = tg_inputs[1]
    /\ tg_appear[Len(tg_appear)] = tg_inputs[Len(tg_inputs)]
    /\ tg_tags = <<TagPersisted>>


-----------------------------------------------------------------------------
(* Items of equal normalised name *)

\* the item entries of equal normalised name
SameNorm(i, j) == gr_entries[i].name_norm = gr_entries[j].name_norm

\* C27: in the grouping of the daily items, two entries whose normalised
\* names are equal are always in the same group.
C27_EqualNormsSameGroup ==
    gr_kind = "item" =>
        \A i, j \in 1..Len(gr_entries) : SameNorm(i, j) => GroupOf(i) = GroupOf(j)

\* an entry of a name seen before is in the group of the first entry of the
\* name, or in a group created before that one
EqualNormsJoinNoLaterGroup ==
    gr_kind = "item" =>
        \A i, j \in 1..Len(gr_entries) :
           i < j /\ SameNorm(i, j) => GroupOf(j) <= GroupOf(i)

\* the second entry of a name is in an earlier group than the first, drawn
\* there by an entry placed between the two that is similar to both groups
EqualNormsInTwoGroups ==
    /\ gr_kind = "item"
    /\ \E i, j \in 1..Len(gr_entries) :
          i < j /\ SameNorm(i, j) /\ GroupOf(j) < GroupOf(i)


-----------------------------------------------------------------------------
(* The daily run in validate-only mode *)

\* the validation has reported an authoritative item as missing from a source
SomeReportedMissing ==
    \E k \in 1..Len(issues) : issues[k].missing_items # <<>>

\* the validation has reported an item or a name, but no missing item
OnlyWarnings ==
    /\ ~SomeReportedMissing
    /\ \E k \in 1..Len(issues) :
          issues[k].extra_items # <<>> \/ issues[k].mapped_name_mismatches # <<>>

\* a run in validate-only mode has neither written the output nor run a git
\* command, at any point of the run
ValidateOnlyWritesNothing ==
    flags.validate_only => output = None /\ git_log = <<>>

\* C29 as claimed: a run in validate-only mode never writes the output and
\* never runs the publish step, whatever the validation finds and with or
\* without --force; it returns non-zero exactly when an authoritative item
\* is missing from a source.
C29_ValidateOnlyNonZeroIffMissing ==
    /\ ValidateOnlyWritesNothing
    /\ (flags.validate_only /\ rpc = "done")
          => (exit_code # Some(0) <=> SomeReportedMissing)

\* C29 amended: a run in validate-only mode never writes the output and never
\* runs the publish step; it ends with the validation, and when the input
\* directory holds a report it returns non-zero (2) exactly when an
\* authoritative item is missing from a source, and without a report it
\* returns 1.
C29_ValidateOnlyWritesNothing ==
    /\ ValidateOnlyWritesNothing
    /\ flags.validate_only => rpc \in {"start", "listed", "done"}
    /\ (flags.validate_only /\ rpc = "done") =>
          /\ files # <<>> =>
                /\ exit_code = IF SomeReportedMissing THEN Some(2) ELSE Some(0)
                /\ SomeReportedMissing <=> SomeUnresolved
          /\ files = <<>> => exit_code = Some(1)

\* a forced validate-only run that asked to publish has stopped on a missing
\* item with nothing written
C29_Witness ==
    /\ flags.validate_only /\ flags.force /\ flags.publish
    /\ rpc = "done"
    /\ SomeReportedMissing
    /\ exit_code = Some(2)
    /\ output = None
    /\ git_log = <<>>

\* validate-only runs that end on warnings alone and on a clean validation
ValidateOnlyOnWarnings ==
    flags.validate_only /\ rpc = "done" /\ OnlyWarnings /\ exit_code = Some(0)

ValidateOnlyClean ==
    /\ flags.validate_only /\ rpc = "done" /\ files # <<>> /\ source_names # <<>>
    /\ ~SomeReportedMissing /\ ~OnlyWarnings
    /\ exit_code = Some(0)

\* a validate-only run without reports returns 1 with no item missing
ValidateOnlyWithoutReports ==
    /\ flags.validate_only /\ rpc = "done"
    /\ files = <<>>
    /\ exit_code = Some(1)
    /\ ~SomeReportedMissing


-----------------------------------------------------------------------------
(* The git commands of the publish step *)

\* the k-th git command of the log failed in the environment env
StepFailed(env, log, k) ==
    CASE log[k] = "rev-parse" -> ~env.in_repo
      [] log[k] = "diff"      -> IF k = 2 THEN ~env.diff_ok ELSE ~env.diff_after_ok
      [] log[k] = "add"       -> ~env.add_ok
      [] log[k] = "commit"    -> ~env.commit_ok
      [] log[k] = "push"      -> ~env.push_ok

Ran(log, cmd) == \E k \in 1..Len(log) : log[k] = cmd

RanBefore(log, a, b) ==
    \A k \in 1..Len(log) : log[k] = b => \E h \in 1..(k - 1) : log[h] = a

\* the step is the publish step of the run in the environment env
PublishedIn(env) ==
    With(publish_to_github(env, flags.publish_dry_run), LAMBDA r :
         /\ git_log' = r.log
         /\ exit_code' = IF r.ok THEN Some(0) ELSE Some(3))

\* what the publish step of a run has done in the environment env
PublishSequence(env) ==
    /\ Ran(git_log', "commit") =>
          /\ ~env.staged_before
          /\ env.staged_after = "target"
          /\ RanBefore(git_log', "add", "commit")
    /\ Ran(git_log', "push") =>
          /\ env.commit_ok
          /\ RanBefore(git_log', "commit", "push")
    /\ \A k \in 1..Len(git_log') :
          StepFailed(env, git_log', k) => k = Len(git_log') /\ exit_code' = Some(3)
    /\ flags.publish_dry_run =>
          ~Ran(git_log', "add") /\ ~Ran(git_log', "commit") /\ ~Ran(git_log', "push")
    /\ exit_code' \in {Some(0), Some(3)}
    /\ output' # None

\* C30: publish_to_github runs git commit only if nothing was staged before
\* its add and every path staged after it is a target path; it runs git push
\* only after the commit succeeded; a failed step ends the sequence with
\* failure and no later git command; in dry-run mode no add, commit or push
\* is run; and a failed publish makes the run return non-zero although the
\* output file was written.
C30_PublishSequence ==
    [][rpc = "written" => \A env \in GitEnvs : PublishedIn(env) => PublishSequence(env)]_vars

\* the commit failed: no push, the run returns 3 and the output is written
C30_Witness ==
    /\ git_log = <<"rev-parse", "diff", "add", "diff", "commit">>
    /\ exit_code = Some(3)
    /\ output # None
    /\ ~flags.publish_dry_run

\* the dry run stops after the first read of the staging area
DryRunPublished ==
    /\ flags.publish_dry_run
    /\ git_log = <<"rev-parse", "diff">>
    /\ exit_code = Some(0)

=============================================================================
